---- MODULE Spec2Model ----
(***************************************************************************)
(* Crypto-simulator-back: an Express proxy in front of the Binance REST    *)
(* API.  The repository holds three deployments of the same server, which  *)
(* differ in the fetcher they use:                                         *)
(*   fetchBinance      src/server.js:1-324      (api.binance.com)          *)
(*   fetchBinanceUS    src/server.js:326-553    (api.binance.us)           *)
(*   fetchBinanceData  src/unnamed/part_000:249-529 (data.binance.com)     *)
(* A text of the program (a path, a message, a JSON string) is the         *)
(* sequence of its UTF-16 code units, as a JavaScript string is; Text      *)
(* writes one from a string of this module.  The body of an upstream       *)
(* response is a sequence of bytes.  Time is in milliseconds.              *)
(***************************************************************************)
EXTENDS Integers, Sequences, FiniteSets

(***************************************************************************)
(* Text helpers                                                            *)
(***************************************************************************)
Min(a, b) == IF a <= b THEN a ELSE b

Max(a, b) == IF a >= b THEN a ELSE b

\* the code units of the characters a string of this module is written
\* with: U+0020..U+007E but the grave accent, and tab, line feed, form feed
\* and carriage return
CodeOf ==
    LET low == " !\"#$%&'()*+,-./0123456789:;<=>?@ABCDEFGHIJKLMNOPQRSTUVWXYZ[\\]^_"
        high == "abcdefghijklmnopqrstuvwxyz{|}~"
    IN  [c \in {SubSeq(low, j, j) : j \in 1..Len(low)}
                \cup {SubSeq(high, j, j) : j \in 1..Len(high)}
                \cup {"\t", "\n", "\f", "\r"} |->
            CASE c = "\t" -> 9
              [] c = "\n" -> 10
              [] c = "\f" -> 12
              [] c = "\r" -> 13
              [] \E j \in 1..Len(low) : SubSeq(low, j, j) = c ->
                    31 + (CHOOSE j \in 1..Len(low) : SubSeq(low, j, j) = c)
              [] OTHER ->
                    96 + (CHOOSE j \in 1..Len(high) : SubSeq(high, j, j) = c)]

\* the code unit of the character c
Code(c) == CodeOf[c]

\* the text a string literal stands for
Text(s) == [i \in 1..Len(s) |-> CodeOf[SubSeq(s, i, i)]]

\* s.charCodeAt(i - 1), -1 past the end
Ch(s, i) == IF i >= 1 /\ i <= Len(s) THEN s[i] ELSE 0 - 1

\* String.prototype.substring(0, n)
Substring0(s, n) == SubSeq(s, 1, Min(n, Len(s)))

\* /suffix$/.test(s) for a literal suffix
EndsWith(s, suffix) ==
    /\ Len(s) >= Len(suffix)
    /\ SubSeq(s, Len(s) - Len(suffix) + 1, Len(s)) = suffix

\* the concatenation of parts[lo], ..., parts[hi]
RECURSIVE Flat(_, _, _)
Flat(parts, lo, hi) ==
    IF lo > hi THEN <<>>
    ELSE IF lo = hi THEN parts[lo]
    ELSE Flat(parts, lo, (lo + hi) \div 2)
            \o Flat(parts, (lo + hi) \div 2 + 1, hi)

IsDigit(c) == c >= 48 /\ c <= 57

\* the decimal text of a natural number, as a template literal prints it
RECURSIVE DecimalText(_)
DecimalText(n) ==
    IF n < 10 THEN <<48 + n>>
    ELSE Append(DecimalText(n \div 10), 48 + (n % 10))

IsHex(c) ==
    IsDigit(c) \/ (c >= 65 /\ c <= 70) \/ (c >= 97 /\ c <= 102)

HexVal(c) ==
    IF IsDigit(c) THEN c - 48 ELSE IF c <= 70 THEN c - 55 ELSE c - 87

\* the end (exclusive) of the run of characters that satisfy In, from i on
RunEnd(s, i, In(_)) ==
    IF i > Len(s) THEN i
    ELSE CHOOSE j \in i..(Len(s) + 1) :
            /\ ~In(Ch(s, j))
            /\ \A h \in i..(j - 1) : In(s[h])

\* the end (exclusive) of the run of characters of set starting at i
SkipChars(s, i, set) == RunEnd(s, i, LAMBDA c : c \in set)

\* the index of the first c in s, 0 when there is none
IndexOf(s, c) ==
    IF \E j \in 1..Len(s) : s[j] = c
    THEN CHOOSE j \in 1..Len(s) : s[j] = c /\ \A h \in 1..(j - 1) : s[h] # c
    ELSE 0

\* a leading and a trailing surrogate
IsHigh(u) == u >= 55296 /\ u <= 56319

IsLow(u) == u >= 56320 /\ u <= 57343

\* s[i] is the second half of a surrogate pair
Trailing(s, i) == i > 1 /\ IsLow(s[i]) /\ IsHigh(s[i - 1])

\* the code point that starts at s[i]: that of a surrogate pair, or s[i]
CodePointAt(s, i) ==
    IF IsHigh(s[i]) /\ IsLow(Ch(s, i + 1))
    THEN 65536 + (s[i] - 55296) * 1024 + (s[i + 1] - 56320)
    ELSE s[i]

\* the code units of a code point
Units(cp) ==
    IF cp < 65536 THEN <<cp>>
    ELSE <<55296 + ((cp - 65536) \div 1024), 56320 + ((cp - 65536) % 1024)>>

\* The uppercase mappings of the Unicode Character Database (version 17):
\* <<first, last, step, delta>> maps every step-th code point c of
\* first..last to c + delta
UpperRanges ==
    <<<<181, 181, 1, 743>>, <<224, 246, 1, -32>>, <<248, 254, 1, -32>>,
      <<255, 255, 1, 121>>, <<257, 303, 2, -1>>, <<305, 305, 1, -232>>,
      <<307, 311, 2, -1>>, <<314, 328, 2, -1>>, <<331, 375, 2, -1>>,
      <<378, 382, 2, -1>>, <<383, 383, 1, -300>>, <<384, 384, 1, 195>>,
      <<387, 389, 2, -1>>, <<392, 392, 1, -1>>, <<396, 396, 1, -1>>,
      <<402, 402, 1, -1>>, <<405, 405, 1, 97>>, <<409, 409, 1, -1>>,
      <<410, 410, 1, 163>>, <<411, 411, 1, 42561>>, <<414, 414, 1, 130>>,
      <<417, 421, 2, -1>>, <<424, 424, 1, -1>>, <<429, 429, 1, -1>>,
      <<432, 432, 1, -1>>, <<436, 438, 2, -1>>, <<441, 441, 1, -1>>,
      <<445, 445, 1, -1>>, <<447, 447, 1, 56>>, <<453, 453, 1, -1>>,
      <<454, 454, 1, -2>>, <<456, 456, 1, -1>>, <<457, 457, 1, -2>>,
      <<459, 459, 1, -1>>, <<460, 460, 1, -2>>, <<462, 476, 2, -1>>,
      <<477, 477, 1, -79>>, <<479, 495, 2, -1>>, <<498, 498, 1, -1>>,
      <<499, 499, 1, -2>>, <<501, 501, 1, -1>>, <<505, 543, 2, -1>>,
      <<547, 563, 2, -1>>, <<572, 572, 1, -1>>, <<575, 576, 1, 10815>>,
      <<578, 578, 1, -1>>, <<583, 591, 2, -1>>, <<592, 592, 1, 10783>>,
      <<593, 593, 1, 10780>>, <<594, 594, 1, 10782>>, <<595, 595, 1, -210>>,
      <<596, 596, 1, -206>>, <<598, 599, 1, -205>>, <<601, 601, 1, -202>>,
      <<603, 603, 1, -203>>, <<604, 604, 1, 42319>>, <<608, 608, 1, -205>>,
      <<609, 609, 1, 42315>>, <<611, 611, 1, -207>>, <<612, 612, 1, 42343>>,
      <<613, 613, 1, 42280>>, <<614, 614, 1, 42308>>, <<616, 616, 1, -209>>,
      <<617, 617, 1, -211>>, <<618, 618, 1, 42308>>, <<619, 619, 1, 10743>>,
      <<620, 620, 1, 42305>>, <<623, 623, 1, -211>>, <<625, 625, 1, 10749>>,
      <<626, 626, 1, -213>>, <<629, 629, 1, -214>>, <<637, 637, 1, 10727>>,
      <<640, 640, 1, -218>>, <<642, 642, 1, 42307>>, <<643, 643, 1, -218>>,
      <<647, 647, 1, 42282>>, <<648, 648, 1, -218>>, <<649, 649, 1, -69>>,
      <<650, 651, 1, -217>>, <<652, 652, 1, -71>>, <<658, 658, 1, -219>>,
      <<669, 669, 1, 42261>>, <<670, 670, 1, 42258>>, <<837, 837, 1, 84>>,
      <<881, 883, 2, -1>>, <<887, 887, 1, -1>>, <<891, 893, 1, 130>>,
      <<940, 940, 1, -38>>, <<941, 943, 1, -37>>, <<945, 961, 1, -32>>,
      <<962, 962, 1, -31>>, <<963, 971, 1, -32>>, <<972, 972, 1, -64>>,
      <<973, 974, 1, -63>>, <<976, 976, 1, -62>>, <<977, 977, 1, -57>>,
      <<981, 981, 1, -47>>, <<982, 982, 1, -54>>, <<983, 983, 1, -8>>,
      <<985, 1007, 2, -1>>, <<1008, 1008, 1, -86>>, <<1009, 1009, 1, -80>>,
      <<1010, 1010, 1, 7>>, <<1011, 1011, 1, -116>>, <<1013, 1013, 1, -96>>,
      <<1016, 1016, 1, -1>>, <<1019, 1019, 1, -1>>, <<1072, 1103, 1, -32>>,
      <<1104, 1119, 1, -80>>, <<1121, 1153, 2, -1>>, <<1163, 1215, 2, -1>>,
      <<1218, 1230, 2, -1>>, <<1231, 1231, 1, -15>>, <<1233, 1327, 2, -1>>,
      <<1377, 1414, 1, -48>>, <<4304, 4346, 1, 3008>>,
      <<4349, 4351, 1, 3008>>, <<5112, 5117, 1, -8>>,
      <<7296, 7296, 1, -6254>>, <<7297, 7297, 1, -6253>>,
      <<7298, 7298, 1, -6244>>, <<7299, 7300, 1, -6242>>,
      <<7301, 7301, 1, -6243>>, <<7302, 7302, 1, -6236>>,
      <<7303, 7303, 1, -6181>>, <<7304, 7304, 1, 35266>>,
      <<7306, 7306, 1, -1>>, <<7545, 7545, 1, 35332>>,
      <<7549, 7549, 1, 3814>>, <<7566, 7566, 1, 35384>>,
      <<7681, 7829, 2, -1>>, <<7835, 7835, 1, -59>>, <<7841, 7935, 2, -1>>,
      <<7936, 7943, 1, 8>>, <<7952, 7957, 1, 8>>, <<7968, 7975, 1, 8>>,
      <<7984, 7991, 1, 8>>, <<8000, 8005, 1, 8>>, <<8017, 8023, 2, 8>>,
      <<8032, 8039, 1, 8>>, <<8048, 8049, 1, 74>>, <<8050, 8053, 1, 86>>,
      <<8054, 8055, 1, 100>>, <<8056, 8057, 1, 128>>,
      <<8058, 8059, 1, 112>>, <<8060, 8061, 1, 126>>, <<8112, 8113, 1, 8>>,
      <<8126, 8126, 1, -7205>>, <<8144, 8145, 1, 8>>, <<8160, 8161, 1, 8>>,
      <<8165, 8165, 1, 7>>, <<8526, 8526, 1, -28>>, <<8560, 8575, 1, -16>>,
      <<8580, 8580, 1, -1>>, <<9424, 9449, 1, -26>>,
      <<11312, 11359, 1, -48>>, <<11361, 11361, 1, -1>>,
      <<11365, 11365, 1, -10795>>, <<11366, 11366, 1, -10792>>,
      <<11368, 11372, 2, -1>>, <<11379, 11379, 1, -1>>,
      <<11382, 11382, 1, -1>>, <<11393, 11491, 2, -1>>,
      <<11500, 11502, 2, -1>>, <<11507, 11507, 1, -1>>,
      <<11520, 11557, 1, -7264>>, <<11559, 11559, 1, -7264>>,
      <<11565, 11565, 1, -7264>>, <<42561, 42605, 2, -1>>,
      <<42625, 42651, 2, -1>>, <<42787, 42799, 2, -1>>,
      <<42803, 42863, 2, -1>>, <<42874, 42876, 2, -1>>,
      <<42879, 42887, 2, -1>>, <<42892, 42892, 1, -1>>,
      <<42897, 42899, 2, -1>>, <<42900, 42900, 1, 48>>,
      <<42903, 42921, 2, -1>>, <<42933, 42947, 2, -1>>,
      <<42952, 42954, 2, -1>>, <<42957, 42971, 2, -1>>,
      <<42998, 42998, 1, -1>>, <<43859, 43859, 1, -928>>,
      <<43888, 43967, 1, -38864>>, <<65345, 65370, 1, -32>>,
      <<66600, 66639, 1, -40>>, <<66776, 66811, 1, -40>>,
      <<66967, 66977, 1, -39>>, <<66979, 66993, 1, -39>>,
      <<66995, 67001, 1, -39>>, <<67003, 67004, 1, -39>>,
      <<68800, 68850, 1, -64>>, <<68976, 68997, 1, -32>>,
      <<71872, 71903, 1, -32>>, <<93792, 93823, 1, -32>>,
      <<93883, 93907, 1, -27>>, <<125218, 125251, 1, -34>>>>

UpperSpecial ==
    <<<<223, <<83, 83>>>>, <<329, <<700, 78>>>>, <<496, <<74, 780>>>>,
      <<912, <<921, 776, 769>>>>, <<944, <<933, 776, 769>>>>,
      <<1415, <<1333, 1362>>>>, <<7830, <<72, 817>>>>,
      <<7831, <<84, 776>>>>, <<7832, <<87, 778>>>>, <<7833, <<89, 778>>>>,
      <<7834, <<65, 702>>>>, <<8016, <<933, 787>>>>,
      <<8018, <<933, 787, 768>>>>, <<8020, <<933, 787, 769>>>>,
      <<8022, <<933, 787, 834>>>>, <<8064, <<7944, 921>>>>,
      <<8065, <<7945, 921>>>>, <<8066, <<7946, 921>>>>,
      <<8067, <<7947, 921>>>>, <<8068, <<7948, 921>>>>,
      <<8069, <<7949, 921>>>>, <<8070, <<7950, 921>>>>,
      <<8071, <<7951, 921>>>>, <<8072, <<7944, 921>>>>,
      <<8073, <<7945, 921>>>>, <<8074, <<7946, 921>>>>,
      <<8075, <<7947, 921>>>>, <<8076, <<7948, 921>>>>,
      <<8077, <<7949, 921>>>>, <<8078, <<7950, 921>>>>,
      <<8079, <<7951, 921>>>>, <<8080, <<7976, 921>>>>,
      <<8081, <<7977, 921>>>>, <<8082, <<7978, 921>>>>,
      <<8083, <<7979, 921>>>>, <<8084, <<7980, 921>>>>,
      <<8085, <<7981, 921>>>>, <<8086, <<7982, 921>>>>,
      <<8087, <<7983, 921>>>>, <<8088, <<7976, 921>>>>,
      <<8089, <<7977, 921>>>>, <<8090, <<7978, 921>>>>,
      <<8091, <<7979, 921>>>>, <<8092, <<7980, 921>>>>,
      <<8093, <<7981, 921>>>>, <<8094, <<7982, 921>>>>,
      <<8095, <<7983, 921>>>>, <<8096, <<8040, 921>>>>,
      <<8097, <<8041, 921>>>>, <<8098, <<8042, 921>>>>,
      <<8099, <<8043, 921>>>>, <<8100, <<8044, 921>>>>,
      <<8101, <<8045, 921>>>>, <<8102, <<8046, 921>>>>,
      <<8103, <<8047, 921>>>>, <<8104, <<8040, 921>>>>,
      <<8105, <<8041, 921>>>>, <<8106, <<8042, 921>>>>,
      <<8107, <<8043, 921>>>>, <<8108, <<8044, 921>>>>,
      <<8109, <<8045, 921>>>>, <<8110, <<8046, 921>>>>,
      <<8111, <<8047, 921>>>>, <<8114, <<8122, 921>>>>,
      <<8115, <<913, 921>>>>, <<8116, <<902, 921>>>>,
      <<8118, <<913, 834>>>>, <<8119, <<913, 834, 921>>>>,
      <<8124, <<913, 921>>>>, <<8130, <<8138, 921>>>>,
      <<8131, <<919, 921>>>>, <<8132, <<905, 921>>>>,
      <<8134, <<919, 834>>>>, <<8135, <<919, 834, 921>>>>,
      <<8140, <<919, 921>>>>, <<8146, <<921, 776, 768>>>>,
      <<8147, <<921, 776, 769>>>>, <<8150, <<921, 834>>>>,
      <<8151, <<921, 776, 834>>>>, <<8162, <<933, 776, 768>>>>,
      <<8163, <<933, 776, 769>>>>, <<8164, <<929, 787>>>>,
      <<8166, <<933, 834>>>>, <<8167, <<933, 776, 834>>>>,
      <<8178, <<8186, 921>>>>, <<8179, <<937, 921>>>>,
      <<8180, <<911, 921>>>>, <<8182, <<937, 834>>>>,
      <<8183, <<937, 834, 921>>>>, <<8188, <<937, 921>>>>,
      <<64256, <<70, 70>>>>, <<64257, <<70, 73>>>>, <<64258, <<70, 76>>>>,
      <<64259, <<70, 70, 73>>>>, <<64260, <<70, 70, 76>>>>,
      <<64261, <<83, 84>>>>, <<64262, <<83, 84>>>>,
      <<64275, <<1348, 1350>>>>, <<64276, <<1348, 1333>>>>,
      <<64277, <<1348, 1339>>>>, <<64278, <<1358, 1350>>>>,
      <<64279, <<1348, 1341>>>>>>

\* the uppercase of a code point, as code units
upperOf(cp) ==
    IF cp < 128 THEN (IF cp >= 97 /\ cp <= 122 THEN <<cp - 32>> ELSE <<cp>>)
    ELSE IF \E k \in 1..Len(UpperSpecial) : UpperSpecial[k][1] = cp
    THEN UpperSpecial[CHOOSE k \in 1..Len(UpperSpecial) :
                            UpperSpecial[k][1] = cp][2]
    ELSE IF \E k \in 1..Len(UpperRanges) :
                /\ cp >= UpperRanges[k][1]
                /\ cp <= UpperRanges[k][2]
                /\ (cp - UpperRanges[k][1]) % UpperRanges[k][3] = 0
    THEN Units(cp + UpperRanges[CHOOSE k \in 1..Len(UpperRanges) :
                        /\ cp >= UpperRanges[k][1]
                        /\ cp <= UpperRanges[k][2]
                        /\ (cp - UpperRanges[k][1]) % UpperRanges[k][3] = 0][4])
    ELSE Units(cp)

\* String.prototype.toUpperCase: the uppercase of every code point
toUpperCase(s) ==
    Flat([i \in 1..Len(s) |->
            IF Trailing(s, i) THEN <<>> ELSE upperOf(CodePointAt(s, i))],
         1, Len(s))

\* s as the `i` flag of a route's regular expression compares it with the
\* pattern: of the characters that fold to a letter of the pattern, only
\* the ASCII letters do so under the flag
foldCase(s) ==
    [i \in 1..Len(s) |-> IF s[i] >= 65 /\ s[i] <= 90 THEN s[i] + 32 ELSE s[i]]

(***************************************************************************)
(* JSON values.  A value is a tagged record:                               *)
(*   [t |-> "undefined"], [t |-> "null"], [t |-> "bool", b |-> ...],       *)
(*   [t |-> "num", neg |-> ..., d |-> <<digits>>, x |-> ...],              *)
(*   [t |-> "negzero"], [t |-> "inf", neg |-> ...], [t |-> "nan"],         *)
(*   [t |-> "str", s |-> text],                                            *)
(*   [t |-> "arr", a |-> <<values>>],                                      *)
(*   [t |-> "obj", o |-> <<[k |-> key, v |-> value], ...>>]                *)
(* A number is a double, held as the decimal JavaScript prints for it: the *)
(* shortest one that reads back as that double.  It is d * 10^x (negated   *)
(* when neg), d a natural written in decimal digits, the most significant  *)
(* first, without zeros at either end; 0 has no digit.                     *)
(***************************************************************************)
Undefined == [t |-> "undefined"]
Null == [t |-> "null"]
Bool(b) == [t |-> "bool", b |-> b]
\* -0
NegZero == [t |-> "negzero"]
\* Infinity and -Infinity
Infinity(neg) == [t |-> "inf", neg |-> neg]
NaN == [t |-> "nan"]
Str(s) == [t |-> "str", s |-> s]
Arr(a) == [t |-> "arr", a |-> a]
Obj(o) == [t |-> "obj", o |-> o]

\* the digits of a natural number
RECURSIVE DigitsOf(_)
DigitsOf(n) == IF n = 0 THEN <<>> ELSE Append(DigitsOf(n \div 10), n % 10)

\* the natural number of at most nine digits
RECURSIVE DigitsValue(_)
DigitsValue(d) ==
    IF d = <<>> THEN 0
    ELSE DigitsValue(SubSeq(d, 1, Len(d) - 1)) * 10 + d[Len(d)]

Zeros(n) == [j \in 1..n |-> 0]

\* d without its leading zeros
StripLeft(d) ==
    IF \A j \in 1..Len(d) : d[j] = 0 THEN <<>>
    ELSE SubSeq(d, CHOOSE j \in 1..Len(d) :
                        d[j] # 0 /\ \A h \in 1..(j - 1) : d[h] = 0,
                Len(d))

\* d without its trailing zeros
StripRight(d) ==
    IF \A j \in 1..Len(d) : d[j] = 0 THEN <<>>
    ELSE SubSeq(d, 1, CHOOSE j \in 1..Len(d) :
                        d[j] # 0 /\ \A h \in (j + 1)..Len(d) : d[h] = 0)

\* the number d * 10^x, negated when neg, of a decimal that is a double's
\* shortest: d and x as they are without d's zeros at either end
Decimal(neg, d, x) ==
    IF StripLeft(d) = <<>>
    THEN (IF neg THEN NegZero
          ELSE [t |-> "num", neg |-> FALSE, d |-> <<>>, x |-> 0])
    ELSE [t |-> "num", neg |-> neg, d |-> StripRight(StripLeft(d)),
          x |-> x + Len(StripLeft(d)) - Len(StripRight(StripLeft(d)))]

\* the number of a small integer
Num(n) == Decimal(n < 0, DigitsOf(IF n < 0 THEN 0 - n ELSE n), 0)

\* a < b, for naturals written without leading zeros
Less(a, b) ==
    \/ Len(a) < Len(b)
    \/ /\ Len(a) = Len(b)
       /\ \E j \in 1..Len(a) :
            a[j] < b[j] /\ \A h \in 1..(j - 1) : a[h] = b[h]

\* a + 1
Inc(a) ==
    IF \A j \in 1..Len(a) : a[j] = 9 THEN <<1>> \o Zeros(Len(a))
    ELSE [j \in 1..Len(a) |->
            IF \E h \in (j + 1)..Len(a) : a[h] # 9 THEN a[j]
            ELSE IF a[j] = 9 THEN 0 ELSE a[j] + 1]

\* a - 1, for a > 0
Dec(a) ==
    StripLeft([j \in 1..Len(a) |->
                IF \E h \in (j + 1)..Len(a) : a[h] # 0 THEN a[j]
                ELSE IF a[j] = 0 THEN 9 ELSE a[j] - 1])

\* the digits d in groups of three: the natural in base 1000
Limbs(d) ==
    [k \in 1..((Len(d) + 2) \div 3) |->
        LET j == Len(d) - 3 * (((Len(d) + 2) \div 3) - k)
        IN  (IF j >= 3 THEN d[j - 2] * 100 ELSE 0)
                + (IF j >= 2 THEN d[j - 1] * 10 ELSE 0) + d[j]]

\* the sum of a[i] * b[k - i] for i in lo..hi
RECURSIVE Conv(_, _, _, _, _)
Conv(a, b, k, lo, hi) ==
    IF lo > hi THEN 0
    ELSE IF lo = hi THEN a[lo] * b[k - lo]
    ELSE Conv(a, b, k, lo, (lo + hi) \div 2)
            + Conv(a, b, k, (lo + hi) \div 2 + 1, hi)

\* c with the carries moved on until no place holds more than 1000
RECURSIVE Carried(_)
Carried(c) ==
    IF \A k \in 1..Len(c) : c[k] <= 1000 THEN c
    ELSE Carried([k \in 1..Len(c) |->
                    (c[k] % 1000)
                        + (IF k < Len(c) THEN c[k + 1] \div 1000 ELSE 0)])

\* the base-1000 digits of c, whose places hold at most 1000: a place takes
\* a carry when the nearest place to its right that is not 999 is 1000
Settled1000(c) ==
    [k \in 1..Len(c) |->
        LET src == CHOOSE j \in (k + 1)..(Len(c) + 1) :
                        /\ Ch(c, j) # 999
                        /\ \A h \in (k + 1)..(j - 1) : c[h] = 999
        IN  (c[k] + (IF Ch(c, src) = 1000 THEN 1 ELSE 0)) % 1000]

\* the decimal digits of a natural in base 1000
Digs(l) ==
    StripLeft([j \in 1..(3 * Len(l)) |->
        CASE j % 3 = 1 -> l[(j + 2) \div 3] \div 100
          [] j % 3 = 2 -> (l[(j + 2) \div 3] \div 10) % 10
          [] OTHER -> l[(j + 2) \div 3] % 10])

\* the product of the limb sequences x and y
MulLimbs(x, y) ==
    Settled1000(Carried([k \in 1..(Len(x) + Len(y)) |->
        Conv(x, y, k, Max(1, k - Len(y)), Min(Len(x), k - 1))]))

\* a * b
Mul(a, b) ==
    IF a = <<>> \/ b = <<>> THEN <<>>
    ELSE Digs(MulLimbs(Limbs(a), Limbs(b)))

\* a * a
Square(a) == Mul(a, a)

\* b^k, for a digit b
RECURSIVE Power(_, _)
Power(b, k) ==
    IF k = 0 THEN <<1>>
    ELSE Mul(Square(Power(b, k \div 2)), IF k % 2 = 0 THEN <<1>> ELSE <<b>>)

\* d without its last f digits: the whole part of d / 10^f
Whole(d, f) == IF Len(d) > f THEN SubSeq(d, 1, Len(d) - f) ELSE <<>>

\* the last f digits of d: the fraction of d / 10^f
Frac(d, f) ==
    IF Len(d) >= f THEN SubSeq(d, Len(d) - f + 1, Len(d))
    ELSE Zeros(f - Len(d)) \o d

\* the fraction 0.g rounds the natural m up: it is more than a half, or a
\* half and m is odd
RoundsUp(m, g) ==
    /\ g # <<>>
    /\ \/ g[1] > 5
       \/ /\ g[1] = 5
          /\ \/ \E j \in 2..Len(g) : g[j] # 0
             \/ m # <<>> /\ m[Len(m)] % 2 = 1

\* w / 2^s rounded to the nearest natural, ties to even, where w is the
\* natural whole followed by the fraction 0.frac
Halved(whole, frac, s) ==
    LET round(v, f) == IF RoundsUp(Whole(v, f), Frac(v, f))
                       THEN Inc(Whole(v, f)) ELSE Whole(v, f)
    IN  round(Mul(whole \o frac, Power(5, s)), Len(frac) + s)

\* 2^52 and 2^53: the doubles of 53 significant bits lie between them
TwoTo52 == <<4, 5, 0, 3, 5, 9, 9, 6, 2, 7, 3, 7, 0, 4, 9, 6>>

TwoTo53 == <<9, 0, 0, 7, 1, 9, 9, 2, 5, 4, 7, 4, 0, 9, 9, 2>>

\* <<a, 2a, 4a, ...>>, of n + 1 naturals
RECURSIVE Doubled(_, _)
Doubled(a, n) ==
    IF n = 0 THEN <<a>> ELSE <<a>> \o Doubled(Mul(a, <<2>>), n - 1)

\* 2^52, ..., 2^60
PowersOfTwo == Doubled(TwoTo52, 8)

\* how many bits the natural whole has beyond 53, at most 8
Excess(whole) ==
    Cardinality({k \in 1..8 : ~Less(whole, PowersOfTwo[k + 1])})

\* t * 10^e as a double m * 2^q, given that t * 10^e >= 2^52 unless q is
\* -1074: m < 2^53 is t * 10^e divided by as many twos more as it takes
Fitted(t, e, q) ==
    LET carry(m, s) == IF m = TwoTo53 THEN [m |-> TwoTo52, q |-> q + s + 1]
                       ELSE [m |-> m, q |-> q + s]
        halve(whole, frac, s) == carry(Halved(whole, frac, s), s)
        fit(whole, frac) == halve(whole, frac, Excess(whole))
    IN  fit(IF e >= 0 THEN t \o Zeros(e) ELSE Whole(t, 0 - e),
            IF e >= 0 THEN <<>> ELSE Frac(t, 0 - e))

\* the double nearest to sig * 10^x (sig without zeros at either end), ties
\* to even, as [m, q] for m * 2^q: m < 2^53, and m >= 2^52 unless q is
\* -1074, the exponent of the subnormal numbers
Nearest(sig, x) ==
    LET from(q0) ==
            Fitted(Mul(sig, Power(IF q0 <= 0 THEN 2 ELSE 5,
                                  IF q0 <= 0 THEN 0 - q0 ELSE q0)),
                   IF q0 <= 0 THEN x ELSE x - q0, q0)
    IN  from(Max((((x + Len(sig) - 1) * 3321928) \div 1000000) - 53,
                 0 - 1074))

\* the decimal whose first Len(p) digits are p and whose other digits are 0
\* lies between the naturals lo and hi, of as many digits; the bounds count
\* when closed
Between(p, lo, hi, closed) ==
    LET j == Len(p)
        tail(b) == \E i \in (j + 1)..Len(b) : b[i] # 0
    IN  /\ \/ Less(SubSeq(lo, 1, j), p)
           \/ SubSeq(lo, 1, j) = p /\ closed /\ ~tail(lo)
        /\ \/ Less(p, SubSeq(hi, 1, j))
           \/ SubSeq(hi, 1, j) = p /\ (closed \/ tail(hi))

\* Number::toString of the double m * 2^q: the decimal of the fewest digits
\* that lies nearer to it than to any other double, and among these the
\* nearest one.  lo, mid and hi are the double and the halfway points to its
\* neighbours, in units of 10^e.
ShortestIn(lo, mid, hi, closed, e) ==
    LET down(j) == SubSeq(mid, 1, j)
        downOk(j) == Between(down(j), lo, hi, closed)
        upOk(j) == /\ Len(Inc(down(j))) = j
                   /\ Between(Inc(down(j)), lo, hi, closed)
        n == CHOOSE j \in 1..Len(hi) :
                /\ downOk(j) \/ upOk(j)
                /\ \A h \in 1..(j - 1) : ~(downOk(h) \/ upOk(h))
        pick(j) == IF /\ upOk(j)
                      /\ \/ ~downOk(j)
                         \/ RoundsUp(down(j), SubSeq(mid, j + 1, Len(mid)))
                   THEN [d |-> Inc(down(j)), x |-> Len(hi) - j + e]
                   ELSE [d |-> down(j), x |-> Len(hi) - j + e]
    IN  pick(n)

\* the shortest decimal of the double m * 2^q: four times the double and
\* the halfway points to its neighbours are 4m - 2 (4m - 1 when the double
\* below is half as far), 4m and 4m + 2, in units of 2^(q - 2)
Shortest(m, q) ==
    LET padded(v, n) == Zeros(n - Len(v)) \o v
        among(b) ==
            ShortestIn(padded(b[1], Len(b[3])), padded(b[2], Len(b[3])), b[3],
                       m[Len(m)] % 2 = 0, IF q >= 2 THEN 0 ELSE q - 2)
        scaled(m4, p) ==
            among([k \in 1..3 |->
                    Mul(CASE k = 1 -> IF m = TwoTo52 /\ q > 0 - 1074
                                      THEN Dec(m4) ELSE Dec(Dec(m4))
                          [] k = 2 -> m4
                          [] k = 3 -> Inc(Inc(m4)), p)])
    IN  scaled(Mul(m, <<4>>),
               Power(IF q >= 2 THEN 2 ELSE 5, IF q >= 2 THEN q - 2 ELSE 2 - q))

\* the Number value of the decimal d * 10^x, negated when neg: the nearest
\* double, Infinity beyond the largest one.  A decimal of 10^309 or more is
\* beyond it (1.797...e308), one below 10^-324 rounds to zero (the least
\* double is 4.94...e-324), and one of 15 digits at most and in the range of
\* the normal doubles is the shortest decimal of its double.
Double(neg, d, x) ==
    LET sig == StripRight(StripLeft(d))
        e == x + Len(StripLeft(d)) - Len(StripRight(StripLeft(d)))
        value(r) == IF r.m = <<>> THEN Decimal(neg, <<>>, 0)
                    ELSE IF r.q > 971 THEN Infinity(neg)
                    ELSE LET dec(p) == Decimal(neg, p.d, p.x)
                         IN  dec(Shortest(r.m, r.q))
    IN  IF sig = <<>> THEN Decimal(neg, <<>>, 0)
        ELSE IF e + Len(sig) - 1 >= 309 THEN Infinity(neg)
        ELSE IF e + Len(sig) - 1 <= 0 - 325 THEN Decimal(neg, <<>>, 0)
        ELSE IF Len(sig) <= 15 /\ e + Len(sig) - 1 >= 0 - 307
                               /\ e + Len(sig) - 1 <= 307
        THEN Decimal(neg, sig, e)
        ELSE value(Nearest(sig, e))

\* the digits of the decimal text s[b..e-1]
DigitsAt(s, b, e) == [j \in 1..(e - b) |-> s[b + j - 1] - 48]

\* key is an array index: the canonical decimal text of an integer in
\* 0..2^32 - 2
IsIndexKey(key) ==
    /\ key # <<>>
    /\ \A j \in 1..Len(key) : IsDigit(key[j])
    /\ key = <<48>> \/ key[1] # 48
    /\ Len(key) <= 10
    /\ ~Less(<<4, 2, 9, 4, 9, 6, 7, 2, 9, 4>>, DigitsAt(key, 1, Len(key) + 1))

\* obj[key] = v.  The keys of an object are kept in the order in which
\* JavaScript enumerates them: the array indices in ascending order, then
\* the other keys in the order of their creation; an existing key keeps its
\* place.
PutMember(o, key, v) ==
    IF \E j \in 1..Len(o) : o[j].k = key
    THEN [j \in 1..Len(o) |-> IF o[j].k = key THEN [k |-> key, v |-> v] ELSE o[j]]
    ELSE IF IsIndexKey(key)
    THEN LET before == Cardinality({j \in 1..Len(o) :
                            /\ IsIndexKey(o[j].k)
                            /\ Less(DigitsAt(o[j].k, 1, Len(o[j].k) + 1),
                                    DigitsAt(key, 1, Len(key) + 1))})
         IN  SubSeq(o, 1, before) \o <<[k |-> key, v |-> v]>>
                \o SubSeq(o, before + 1, Len(o))
    ELSE Append(o, [k |-> key, v |-> v])

\* value.key: undefined for a missing key and for a value that is no object
\* (property reads of null and undefined throw: see Throws)
Get(val, key) ==
    IF val.t = "obj" /\ \E j \in 1..Len(val.o) : val.o[j].k = key
    THEN val.o[CHOOSE j \in 1..Len(val.o) : val.o[j].k = key].v
    ELSE Undefined

(***************************************************************************)
(* JSON.parse: arrays, objects, strings with their escapes, numbers,       *)
(* true/false/null, white space between the tokens.                        *)
(***************************************************************************)
ParseFail == [ok |-> FALSE, val |-> Undefined, next |-> 0]
ParseOk(v, n) == [ok |-> TRUE, val |-> v, next |-> n]

\* JSON white space: space, tab, line feed, carriage return
JsonSpace == {32, 9, 10, 13}

\* the end (exclusive) of the run of characters from i on that stand for
\* themselves in a string literal: up to a quote, a backslash, a control
\* character or the end of the text
PlainEnd(s, i) == RunEnd(s, i, LAMBDA c : c >= 32 /\ c # 34 /\ c # 92)

\* the code unit an escape \d stands for, -1 when \d is no escape
EscapeChar(d) ==
    CASE d = 34 \/ d = 92 \/ d = 47 -> d
      [] d = 98 -> 8
      [] d = 102 -> 12
      [] d = 110 -> 10
      [] d = 114 -> 13
      [] d = 116 -> 9
      [] OTHER -> 0 - 1

\* the code unit of the four hex digits at i, -1 when they are not four
HexQuad(s, i) ==
    IF \A j \in i..(i + 3) : IsHex(Ch(s, j))
    THEN ((HexVal(s[i]) * 16 + HexVal(s[i + 1])) * 16
                + HexVal(s[i + 2])) * 16 + HexVal(s[i + 3])
    ELSE 0 - 1

\* the rest of a string literal from i on, acc the code units read so far
RECURSIVE StringTail(_, _, _)
StringTail(s, i, acc) ==
    LET p == PlainEnd(s, i)
        run == acc \o SubSeq(s, i, p - 1)
        c == Ch(s, p)
        d == Ch(s, p + 1)
    IN  CASE c = 34 -> ParseOk(Str(run), p + 1)
          [] c = 92 /\ d = 117 ->
                IF HexQuad(s, p + 2) < 0 THEN ParseFail
                ELSE StringTail(s, p + 6, Append(run, HexQuad(s, p + 2)))
          [] c = 92 /\ d # 117 /\ EscapeChar(d) >= 0 ->
                StringTail(s, p + 2, Append(run, EscapeChar(d)))
          [] OTHER -> ParseFail

\* the string literal starting at i
ParseString(s, i) ==
    IF Ch(s, i) = 34 THEN StringTail(s, i + 1, <<>>) ELSE ParseFail

\* the end (exclusive) of the run of digits starting at i
DigitsEnd(s, i) == RunEnd(s, i, IsDigit)

\* the exponent part at i: [eE] [+-]? [0-9]+, with end = i when there is
\* none.  An exponent of eight digits or more counts as 10^7: the number is
\* then 0 or Infinity, as it is for every exponent beyond the doubles' range
ExponentAt(s, i) ==
    LET signed == Ch(s, i + 1) = 45 \/ Ch(s, i + 1) = 43
        b == IF signed THEN i + 2 ELSE i + 1
        e == DigitsEnd(s, b)
        val == LET ds == StripLeft(DigitsAt(s, b, e))
               IN  IF Len(ds) > 7 THEN 10000000 ELSE DigitsValue(ds)
    IN  IF (Ch(s, i) = 101 \/ Ch(s, i) = 69) /\ e > b
        THEN [exp |-> IF Ch(s, i + 1) = 45 THEN 0 - val ELSE val, end |-> e]
        ELSE [exp |-> 0, end |-> i]

\* a number token: -? (0 | [1-9][0-9]*) (. [0-9]+)? ([eE] [+-]? [0-9]+)?
ParseNumber(s, i) ==
    LET neg == Ch(s, i) = 45
        b == IF neg THEN i + 1 ELSE i
        e1 == DigitsEnd(s, b)
        dot == Ch(s, e1) = 46
        e2 == IF dot THEN DigitsEnd(s, e1 + 1) ELSE e1
        fracLen == IF dot THEN e2 - e1 - 1 ELSE 0
        x == ExponentAt(s, e2)
    IN  IF \/ e1 = b
           \/ Ch(s, b) = 48 /\ e1 > b + 1
           \/ dot /\ fracLen = 0
           \/ (Ch(s, e2) = 101 \/ Ch(s, e2) = 69) /\ x.end = e2
        THEN ParseFail
        ELSE ParseOk(Double(neg, DigitsAt(s, b, e1)
                                    \o DigitsAt(s, e1 + 1, e1 + 1 + fracLen),
                            x.exp - fracLen), x.end)

ParseLiteral(s, i, word, v) ==
    IF i + Len(word) - 1 <= Len(s) /\ SubSeq(s, i, i + Len(word) - 1) = word
    THEN ParseOk(v, i + Len(word))
    ELSE ParseFail

RECURSIVE ParseValue(_, _)
RECURSIVE ParseElements(_, _, _)
RECURSIVE ParseMembers(_, _, _)

\* the value that starts at i, after white space
ParseValue(s, i) ==
    LET b == SkipChars(s, i, JsonSpace)
        c == Ch(s, b)
        inner == SkipChars(s, b + 1, JsonSpace)
    IN  CASE c = 91 ->
                IF Ch(s, inner) = 93 THEN ParseOk(Arr(<<>>), inner + 1)
                ELSE ParseElements(s, b + 1, <<>>)
          [] c = 123 ->
                IF Ch(s, inner) = 125 THEN ParseOk(Obj(<<>>), inner + 1)
                ELSE ParseMembers(s, b + 1, <<>>)
          [] c = 34 -> ParseString(s, b)
          [] c = 116 -> ParseLiteral(s, b, Text("true"), Bool(TRUE))
          [] c = 102 -> ParseLiteral(s, b, Text("false"), Bool(FALSE))
          [] c = 110 -> ParseLiteral(s, b, Text("null"), Null)
          [] IsDigit(c) \/ c = 45 -> ParseNumber(s, b)
          [] OTHER -> ParseFail

\* the elements of an array from i on, acc the ones parsed so far
ParseElements(s, i, acc) ==
    LET e == ParseValue(s, i)
        n == SkipChars(s, e.next, JsonSpace)
    IN  IF ~e.ok THEN ParseFail
        ELSE CASE Ch(s, n) = 44 -> ParseElements(s, n + 1, Append(acc, e.val))
               [] Ch(s, n) = 93 -> ParseOk(Arr(Append(acc, e.val)), n + 1)
               [] OTHER -> ParseFail

\* the members of an object from i on, acc the ones parsed so far
ParseMembers(s, i, acc) ==
    LET key == ParseString(s, SkipChars(s, i, JsonSpace))
        colon == SkipChars(s, key.next, JsonSpace)
        v == ParseValue(s, colon + 1)
        n == SkipChars(s, v.next, JsonSpace)
    IN  IF ~key.ok THEN ParseFail
        ELSE IF Ch(s, colon) # 58 THEN ParseFail
        ELSE IF ~v.ok THEN ParseFail
        ELSE CASE Ch(s, n) = 44 ->
                    ParseMembers(s, n + 1, PutMember(acc, key.val.s, v.val))
               [] Ch(s, n) = 125 ->
                    ParseOk(Obj(PutMember(acc, key.val.s, v.val)), n + 1)
               [] OTHER -> ParseFail

\* JSON.parse(text): the whole text is one value, or it throws (ok = FALSE)
JSONparse(text) ==
    LET whole(r) == IF r.ok /\ SkipChars(text, r.next, JsonSpace) = Len(text) + 1
                    THEN r ELSE ParseFail
    IN  whole(ParseValue(text, 1))

(***************************************************************************)
(* UTF-8                                                                   *)
(***************************************************************************)
\* U+FFFD, the replacement character, as a text
REPLACEMENT == <<65533>>

\* the UTF-8 bytes of a code point
Utf8(cp) ==
    IF cp < 128 THEN <<cp>>
    ELSE IF cp < 2048 THEN <<192 + (cp \div 64), 128 + (cp % 64)>>
    ELSE IF cp < 65536
    THEN <<224 + (cp \div 4096), 128 + ((cp \div 64) % 64), 128 + (cp % 64)>>
    ELSE <<240 + (cp \div 262144), 128 + ((cp \div 4096) % 64),
           128 + ((cp \div 64) % 64), 128 + (cp % 64)>>

\* the number of bytes of the sequence the byte b leads, 0 when b leads none
\* (a continuation byte, 0xC0, 0xC1, 0xF5 and above)
SequenceLength(b) ==
    IF b >= 194 /\ b <= 223 THEN 2
    ELSE IF b >= 224 /\ b <= 239 THEN 3
    ELSE IF b >= 240 /\ b <= 244 THEN 4
    ELSE 0

\* c may be the h-th byte after the lead: a continuation byte that keeps
\* the sequence from being overlong, a surrogate or beyond U+10FFFF
Continues(lead, h, c) ==
    /\ c >= 128 /\ c <= 191
    /\ h = 1 /\ lead = 224 => c >= 160
    /\ h = 1 /\ lead = 237 => c <= 159
    /\ h = 1 /\ lead = 240 => c >= 144
    /\ h = 1 /\ lead = 244 => c <= 143

\* the bytes b[p+1..p+n] continue the lead b[p]
Continued(b, p, n) == \A h \in 1..n : Continues(b[p], h, Ch(b, p + h))

\* the code point of the well-formed sequence of n bytes at b[p]
CodePointOf(b, p, n) ==
    CASE n = 2 -> (b[p] - 192) * 64 + (b[p + 1] - 128)
      [] n = 3 -> ((b[p] - 224) * 64 + (b[p + 1] - 128)) * 64 + (b[p + 2] - 128)
      [] n = 4 -> (((b[p] - 240) * 64 + (b[p + 1] - 128)) * 64
                        + (b[p + 2] - 128)) * 64 + (b[p + 3] - 128)

\* what the byte at p adds to the decoded text: an ASCII byte itself, the
\* lead of a well-formed sequence its code point, a byte that continues a
\* lead before it nothing, and U+FFFD a lead whose sequence breaks off and
\* every other byte
DecodedAt(b, p) ==
    IF b[p] < 128 THEN <<b[p]>>
    ELSE IF SequenceLength(b[p]) > 0
    THEN (IF Continued(b, p, SequenceLength(b[p]) - 1)
          THEN Units(CodePointOf(b, p, SequenceLength(b[p])))
          ELSE REPLACEMENT)
    ELSE IF \E j \in 1..Min(3, p - 1) :
                SequenceLength(b[p - j]) > j /\ Continued(b, p - j, j)
    THEN <<>>
    ELSE REPLACEMENT

\* buffer.toString(): the text of the bytes b read as UTF-8, every ill-formed
\* part replaced by U+FFFD
utf8Decode(b) ==
    IF \A p \in 1..Len(b) : b[p] < 128 THEN b
    ELSE Flat([p \in 1..Len(b) |-> DecodedAt(b, p)], 1, Len(b))

(***************************************************************************)
(* Deployments and configuration                                           *)
(***************************************************************************)
\* a deployment is named by its fetcher
Variants == {"fetchBinance", "fetchBinanceUS", "fetchBinanceData"}

hostname(v) ==
    CASE v = "fetchBinance" -> Text("api.binance.com")
      [] v = "fetchBinanceUS" -> Text("api.binance.us")
      [] v = "fetchBinanceData" -> Text("data.binance.com")

\* req.setTimeout(10000, ...): the socket's idle timeout, in ms
TIMEOUT_MS == 10000

\* the timeout a socket of https.globalAgent is created with (the agent's
\* options.timeout, 5000 ms since Node 19); https.request uses this agent
\* when options names none
AGENT_TIMEOUT_MS == 5000

\* fetchBinance never calls req.setTimeout
hasTimeout(v) == v \in {"fetchBinanceUS", "fetchBinanceData"}

\* data.substring(0, 200) in fetchBinanceUS
ERR_BODY_CHARS == 200

HTTP_OK == 200

\* the exact strings of allowedOrigins, and the suffix of /\.onrender\.com$/
allowedOrigins ==
    {Text("http://localhost:3000"), Text("http://localhost:5000"),
     Text("https://crypto-simulator-front.onrender.com")}

allowedSuffix == Text(".onrender.com")

\* the Origin header; the empty text stands for an absent (or empty)
\* header: !origin
NoOrigin == <<>>

\* isAllowed with the pattern's dot left unescaped: /.onrender.com$/
isAllowed_AnyChar(origin) ==
    \/ origin \in allowedOrigins
    \/ /\ Len(origin) > Len(Text("onrender.com"))
       /\ EndsWith(origin, Text("onrender.com"))

isAllowed(origin) ==
    \/ origin \in allowedOrigins
    \/ EndsWith(origin, allowedSuffix)

\* the cors origin callback: TRUE for callback(null, true),
\* FALSE for callback(new Error('Not allowed by CORS'))
corsAllows(origin) == IF origin = NoOrigin THEN TRUE ELSE isAllowed(origin)

\* what a JavaScript call comes to: Returned(value), or Thrown(message)
\* when it throws
Returned(v) == [ok |-> TRUE, val |-> v]
Thrown(msg) == [ok |-> FALSE, message |-> msg]

\* path matches the route registered as `route` (not '/'): Express compares
\* without regard to case and accepts one trailing '/'
matches(path, route) ==
    foldCase(path) \in {foldCase(Text(route)), foldCase(Text(route)) \o <<47>>}

PRICE_ROUTE == Text("/api/binance/price")

\* what follows the prefix of '/api/binance/price/:symbol?' in path
priceRest(path) == SubSeq(path, Len(PRICE_ROUTE) + 1, Len(path))

\* the path segment that :symbol captures, empty when there is none
priceSegment(path) ==
    LET rest == priceRest(path)
    IN  IF EndsWith(rest, <<47>>) THEN SubSeq(rest, 2, Len(rest) - 1)
        ELSE SubSeq(rest, 2, Len(rest))

\* path matches '/api/binance/price/:symbol?'
matchesPrice(path) ==
    /\ Len(path) >= Len(PRICE_ROUTE)
    /\ foldCase(SubSeq(path, 1, Len(PRICE_ROUTE))) = PRICE_ROUTE
    /\ \/ priceRest(path) \in {<<>>, <<47>>}
       \/ /\ Ch(priceRest(path), 1) = 47
          /\ priceSegment(path) # <<>>
          /\ IndexOf(priceSegment(path), 47) = 0

\* the route table of each deployment: the handler a GET of path reaches
Handler(v, path) ==
    CASE path = <<47>> -> "info"
      [] matches(path, "/health") -> "health"
      [] matches(path, "/api/binance/ticker") -> "ticker"
      [] matchesPrice(path) -> "price"
      [] matches(path, "/api/binance/klines") /\ v # "fetchBinanceUS" -> "klines"
      [] matches(path, "/api/binance/exchangeInfo") /\ v = "fetchBinance" ->
            "exchangeInfo"
      [] OTHER -> "notFound"

UpstreamHandlers == {"ticker", "price", "klines", "exchangeInfo"}

\* s[p] is the '%' of an escape: two hex digits follow it
Escaped(s, p) == s[p] = 37 /\ IsHex(Ch(s, p + 1)) /\ IsHex(Ch(s, p + 2))

\* the byte of the escape at p, -1 where there is none
EscapeAt(s, p) ==
    IF p >= 1 /\ p <= Len(s) /\ Escaped(s, p)
    THEN HexVal(s[p + 1]) * 16 + HexVal(s[p + 2])
    ELSE 0 - 1

\* the bytes of the n escapes from p on
EscapedBytes(s, p, n) == [h \in 1..n |-> EscapeAt(s, p + 3 * (h - 1))]

\* the escape at p leads a well-formed UTF-8 sequence of escapes
LeadsSequence(s, p) ==
    /\ SequenceLength(EscapeAt(s, p)) > 0
    /\ Continued(EscapedBytes(s, p, SequenceLength(EscapeAt(s, p))), 1,
                 SequenceLength(EscapeAt(s, p)) - 1)

\* what the character at p adds to the decoded text; bad when the text does
\* not decode because of it
DecodedChar(s, p) ==
    IF s[p] # 37
    THEN [bad |-> FALSE,
          s |-> IF Ch(s, p - 1) = 37 \/ Ch(s, p - 2) = 37 THEN <<>> ELSE <<s[p]>>]
    ELSE IF ~Escaped(s, p) THEN [bad |-> TRUE, s |-> <<>>]
    ELSE IF EscapeAt(s, p) < 128 THEN [bad |-> FALSE, s |-> <<EscapeAt(s, p)>>]
    ELSE IF LeadsSequence(s, p)
    THEN [bad |-> FALSE,
          s |-> Units(CodePointOf(
                    EscapedBytes(s, p, SequenceLength(EscapeAt(s, p))), 1,
                    SequenceLength(EscapeAt(s, p))))]
    ELSE [bad |-> ~\E j \in 1..3 :
                        /\ SequenceLength(EscapeAt(s, p - 3 * j)) > j
                        /\ LeadsSequence(s, p - 3 * j),
          s |-> <<>>]

\* decodeURIComponent: the escapes %XX are the bytes of the characters'
\* UTF-8; it throws a URIError (ok = FALSE) for a '%' that two hex digits do
\* not follow and for bytes that are not well-formed UTF-8
decodeURIComponent(s) ==
    IF \E p \in 1..Len(s) : DecodedChar(s, p).bad
    THEN [ok |-> FALSE, s |-> <<>>]
    ELSE [ok |-> TRUE,
          s |-> Flat([p \in 1..Len(s) |-> DecodedChar(s, p).s], 1, Len(s))]

\* req.params of a request no route parameter was captured for
NoParams == [symbol |-> Undefined]

\* req.params of the route path reaches: the price route's :symbol is the
\* decoded path segment; the router throws when the segment does not decode
routeParams(v, path) ==
    IF Handler(v, path) = "price" /\ priceSegment(path) # <<>>
    THEN LET decoded == decodeURIComponent(priceSegment(path))
         IN  IF decoded.ok THEN Returned([symbol |-> Str(decoded.s)])
             ELSE Thrown(Text("Failed to decode param '")
                            \o priceSegment(path) \o Text("'"))
    ELSE Returned(NoParams)

\* req.query of a request without a query string, as far as the klines
\* handler reads it: symbol, interval and limit, each Undefined when absent
\* and Str(text) when supplied
NoQuery == [symbol |-> Undefined, interval |-> Undefined, limit |-> Undefined]

\* a destructuring default: `name = d` takes d for undefined only
orDefault(p, d) == IF p.t = "undefined" THEN Text(d) ELSE p.s

\* the truthiness of a parameter: undefined and '' are falsy
truthy(p) == p.t = "str" /\ p.s # <<>>

\* what the handler passes to its fetcher, after the host
endpoint(h, req) ==
    CASE h = "ticker" -> Text("/api/v3/ticker/24hr")
      [] h = "price" ->
            IF truthy(req.params.symbol)
            THEN Text("/api/v3/ticker/price?symbol=")
                    \o toUpperCase(req.params.symbol.s)
            ELSE Text("/api/v3/ticker/price")
      [] h = "klines" ->
            Text("/api/v3/klines?symbol=")
                \o orDefault(req.query.symbol, "BTCUSDT")
                \o Text("&interval=") \o orDefault(req.query.interval, "1h")
                \o Text("&limit=") \o orDefault(req.query.limit, "60")
      [] h = "exchangeInfo" -> Text("/api/v3/exchangeInfo")

\* s without its trailing C0 controls and spaces
trimEnd(s) ==
    IF \A j \in 1..Len(s) : s[j] <= 32 THEN <<>>
    ELSE SubSeq(s, 1, CHOOSE j \in 1..Len(s) :
                        s[j] > 32 /\ \A h \in (j + 1)..Len(s) : s[h] <= 32)

\* s without the characters of set
without(s, set) == SelectSeq(s, LAMBDA c : c \notin set)

\* the escape %XX of a byte, as the URL parser writes it
percentEncoded(b) ==
    LET hex(d) == IF d < 10 THEN 48 + d ELSE 55 + d
    IN  <<37, hex(b \div 16), hex(b % 16)>>

\* the escapes of the UTF-8 bytes of a code point
percentEncodedPoint(cp) ==
    LET bytes == Utf8(cp)
    IN  Flat([j \in 1..Len(bytes) |-> percentEncoded(bytes[j])], 1, Len(bytes))

\* the character at s[i] of a URL's query as the URL parser writes it: the
\* special-query percent-encode set is the C0 controls, space, '"', '#',
\* '<', '>', "'" and what lies beyond '~'; a surrogate without its pair is
\* written as U+FFFD
queryChar(s, i) ==
    IF Trailing(s, i) THEN <<>>
    ELSE IF (IsHigh(s[i]) \/ IsLow(s[i])) /\ CodePointAt(s, i) < 65536
    THEN percentEncodedPoint(REPLACEMENT[1])
    ELSE IF CodePointAt(s, i) <= 32 \/ CodePointAt(s, i) > 126
                \/ CodePointAt(s, i) \in {34, 35, 60, 62, 39}
    THEN percentEncodedPoint(CodePointAt(s, i))
    ELSE <<s[i]>>

queryText(s) == Flat([i \in 1..Len(s) |-> queryChar(s, i)], 1, Len(s))

\* urlObj.pathname + urlObj.search of new URL('https://api.binance.com' + e):
\* the parser drops trailing C0 controls and spaces, then every tab and
\* newline, leaves out the fragment ('#' and what follows) and percent-
\* encodes the query, and search is empty for an empty query; the pathnames
\* of the endpoints stay as they are
urlPath(e) ==
    LET clean == without(trimEnd(e), {9, 10, 13})
        hash == IndexOf(clean, 35)
        whole == IF hash # 0 THEN SubSeq(clean, 1, hash - 1) ELSE clean
        mark == IndexOf(whole, 63)
    IN  IF mark = 0 THEN whole
        ELSE IF mark = Len(whole) THEN SubSeq(whole, 1, mark - 1)
        ELSE SubSeq(whole, 1, mark) \o queryText(SubSeq(whole, mark + 1, Len(whole)))

\* options.path: fetchBinance takes it from new URL(url), the other
\* fetchers pass the endpoint on as it is
requestPath(v, h, req) ==
    IF v = "fetchBinance" THEN urlPath(endpoint(h, req)) ELSE endpoint(h, req)

\* https.request throws ERR_UNESCAPED_CHARACTERS for a path with a
\* character outside U+0021..U+00FF
unescaped(path) == \E j \in 1..Len(path) : path[j] < 33 \/ path[j] > 255

UNESCAPED_MESSAGE == Text("Request path contains unescaped characters")

\* mainPairs of the handler h of deployment v
mainPairs(v, h) ==
    CASE h = "exchangeInfo" ->
            {Text("BTCUSDT"), Text("ETHUSDT"), Text("BNBUSDT"), Text("SOLUSDT")}
      [] h = "ticker" /\ v = "fetchBinanceUS" ->
            {Text("BTCUSDT"), Text("ETHUSDT"), Text("BNBUSDT"), Text("SOLUSDT"),
             Text("ADAUSDT"), Text("AVAXUSDT"), Text("DOGEUSDT"),
             Text("DOTUSDT"), Text("MATICUSDT"), Text("LINKUSDT"),
             Text("LTCUSDT"), Text("UNIUSDT"), Text("ATOMUSDT")}
      [] OTHER ->
            {Text("BTCUSDT"), Text("ETHUSDT"), Text("BNBUSDT"), Text("SOLUSDT"),
             Text("XRPUSDT"), Text("ADAUSDT"), Text("AVAXUSDT"),
             Text("DOGEUSDT"), Text("DOTUSDT"), Text("MATICUSDT"),
             Text("LINKUSDT"), Text("LTCUSDT"), Text("UNIUSDT"),
             Text("ATOMUSDT"), Text("SHIBUSDT")}

(***************************************************************************)
(* The fetcher's promise                                                   *)
(***************************************************************************)
NoPromise == [state |-> "none"]
Pending == [state |-> "pending"]
Resolved(v) == [state |-> "fulfilled", value |-> v]
Rejected(msg) == [state |-> "rejected", message |-> msg]

\* resolve/reject of a promise: only the first call settles it
Settle(p, outcome) == IF p.state = "pending" THEN outcome ELSE p

\* errBody without the cut: every fetcher quotes the whole body
errBody_Uncut(v, data) == data

\* the body text quoted in the error of a non-200 response
errBody(v, data) ==
    IF v = "fetchBinanceUS" THEN Substring0(data, ERR_BODY_CHARS) ELSE data

\* res.on('end'): what the fetcher of deployment v settles its promise with
onEnd(v, statusCode, data) ==
    IF statusCode = HTTP_OK
    THEN LET outcome(parsed) == IF parsed.ok THEN Resolved(parsed.val)
                                ELSE Rejected(Text("Invalid JSON response"))
         IN  outcome(JSONparse(data))
    ELSE Rejected(Text("HTTP ") \o DecimalText(statusCode) \o Text(": ")
                    \o errBody(v, data))

\* onError with the cause replaced by a fixed text
onError_Masked(error) == Rejected(Text("Request failed"))

\* req.on('error', error => reject(error))
onError(error) == Rejected(error)

\* the req.setTimeout callback, after req.destroy()
onTimeout == Rejected(Text("Request timeout"))

(***************************************************************************)
(* Response shapers.  A shaper returns Returned(value), or Thrown(message) *)
(* when the JavaScript throws a TypeError (messages as V8 words them).     *)
(***************************************************************************)
IsNullish(val) == val.t \in {"null", "undefined"}

NullishName(val) == IF val.t = "null" THEN Text("null") ELSE Text("undefined")

\* mainPairs.includes(entry.symbol)
includesSymbol(pairs, entry) ==
    LET sym == Get(entry, Text("symbol"))
    IN  sym.t = "str" /\ sym.s \in pairs

\* filter that collects the matches in reverse
RECURSIVE filter_Reversed(_, _)
filter_Reversed(a, pairs) ==
    IF a = <<>> THEN <<>>
    ELSE filter_Reversed(Tail(a), pairs)
            \o (IF includesSymbol(pairs, Head(a)) THEN <<Head(a)>> ELSE <<>>)

\* filter that keeps the first entry of each symbol only
RECURSIVE filter_Dedup(_, _)
filter_Dedup(a, pairs) ==
    IF a = <<>> THEN <<>>
    ELSE LET front == SubSeq(a, 1, Len(a) - 1)
             last == a[Len(a)]
         IN  filter_Dedup(front, pairs)
                \o (IF /\ includesSymbol(pairs, last)
                        /\ \A j \in 1..Len(front) :
                                Get(front[j], Text("symbol"))
                                    # Get(last, Text("symbol"))
                     THEN <<last>> ELSE <<>>)

\* a.filter(entry => mainPairs.includes(entry.symbol))
RECURSIVE filter(_, _)
filter(a, pairs) ==
    IF a = <<>> THEN <<>>
    ELSE (IF includesSymbol(pairs, Head(a)) THEN <<Head(a)>> ELSE <<>>)
            \o filter(Tail(a), pairs)

\* list.filter(e => mainPairs.includes(e.symbol)), where list is written `name`
filterCall(list, name, pairs) ==
    IF IsNullish(list)
    THEN Thrown(Text("Cannot read properties of ") \o NullishName(list)
                    \o Text(" (reading 'filter')"))
    ELSE IF list.t # "arr"
    THEN Thrown(Text(name) \o Text(".filter is not a function"))
    ELSE IF \E j \in 1..Len(list.a) : IsNullish(list.a[j])
    THEN Thrown(Text("Cannot read properties of null (reading 'symbol')"))
    ELSE Returned(filter(list.a, pairs))

\* StrWhiteSpaceChar: tab, line feed, vertical tab, form feed, carriage
\* return, space, no-break space, U+1680, U+2000..U+200A, the line and the
\* paragraph separator, U+202F, U+205F, U+3000 and the byte order mark
StrWhiteSpace ==
    (9..13) \cup {32, 160, 5760} \cup (8192..8202)
        \cup {8232, 8233, 8239, 8287, 12288, 65279}

\* parseFloat of a text: after leading white space, [+-]? Infinity, or the
\* longest prefix [+-]? [0-9]* (. [0-9]*)? ([eE] [+-]? [0-9]+)? with a digit
\* in its mantissa; NaN when there is neither
floatOfText(s) ==
    LET a == SkipChars(s, 1, StrWhiteSpace)
        signed == Ch(s, a) = 45 \/ Ch(s, a) = 43
        neg == Ch(s, a) = 45
        b == IF signed THEN a + 1 ELSE a
        e1 == DigitsEnd(s, b)
        e2 == IF Ch(s, e1) = 46 THEN DigitsEnd(s, e1 + 1) ELSE e1
        fracLen == IF e2 > e1 THEN e2 - e1 - 1 ELSE 0
        x == ExponentAt(s, e2)
    IN  IF b + 7 <= Len(s) /\ SubSeq(s, b, b + 7) = Text("Infinity")
        THEN Infinity(neg)
        ELSE IF e1 = b /\ fracLen = 0 THEN NaN
        ELSE Double(neg, DigitsAt(s, b, e1)
                            \o DigitsAt(s, e1 + 1, e1 + 1 + fracLen),
                    x.exp - fracLen)

\* parseFloat(v) = parseFloat(String(v))
RECURSIVE parseFloat(_)
parseFloat(v) ==
    CASE v.t = "num" \/ v.t = "inf" -> v
      [] v.t = "negzero" -> Num(0)
      [] v.t = "str" -> floatOfText(v.s)
      [] v.t = "arr" -> IF v.a = <<>> THEN NaN ELSE parseFloat(v.a[1])
      [] OTHER -> NaN

\* k[i], for a k that is neither null nor undefined
at(k, i) ==
    CASE k.t = "arr" -> IF i + 1 <= Len(k.a) THEN k.a[i + 1] ELSE Undefined
      [] k.t = "str" -> IF i + 1 <= Len(k.s) THEN Str(<<k.s[i + 1]>>) ELSE Undefined
      [] k.t = "obj" -> Get(k, DecimalText(i))
      [] OTHER -> Undefined

\* candle with the trade count read one position early
candle_TradesAt7(k) ==
    LET of(float) ==
            [openTime |-> at(k, 0), open |-> float[1], high |-> float[2],
             low |-> float[3], close |-> float[4], volume |-> float[5],
             closeTime |-> at(k, 6), trades |-> at(k, 7)]
    IN  of([i \in 1..5 |-> parseFloat(at(k, i))])

\* the candle of one upstream row
candle(k) ==
    LET of(float) ==
            [openTime |-> at(k, 0), open |-> float[1], high |-> float[2],
             low |-> float[3], close |-> float[4], volume |-> float[5],
             closeTime |-> at(k, 6), trades |-> at(k, 8)]
    IN  of([i \in 1..5 |-> parseFloat(at(k, i))])

\* data.map(k => ({...}))
mapCandles(data) ==
    IF IsNullish(data)
    THEN Thrown(Text("Cannot read properties of ") \o NullishName(data)
                    \o Text(" (reading 'map')"))
    ELSE IF data.t # "arr" THEN Thrown(Text("data.map is not a function"))
    ELSE IF \E j \in 1..Len(data.a) : IsNullish(data.a[j])
    THEN Thrown(Text("Cannot read properties of null (reading '0')"))
    ELSE Returned([j \in 1..Len(data.a) |-> candle(data.a[j])])

\* data.symbols.filter(...) of the exchangeInfo handler
filterSymbols(data, pairs) ==
    IF IsNullish(data)
    THEN Thrown(Text("Cannot read properties of ") \o NullishName(data)
                    \o Text(" (reading 'symbols')"))
    ELSE filterCall(Get(data, Text("symbols")), "data.symbols", pairs)

(***************************************************************************)
(* Route handlers: the HTTP response a handler sends once its fetcher's    *)
(* promise has settled.  now stands for new Date().toISOString().          *)
(***************************************************************************)
HTTP_ERROR == 500
HTTP_NOT_FOUND == 404

\* the `source` field of the deployments that send one
source(v) ==
    IF v = "fetchBinanceUS" THEN Text("Binance.US") ELSE Text("data.binance.com")

\* the fixed `error` text of the ticker handler's catch
tickerError(v) ==
    IF v = "fetchBinanceUS" THEN Text("Failed to fetch Binance.US data")
    ELSE Text("Failed to fetch Binance data")

\* catchResponse with the cause hidden from the client
catchResponse_Masked(v, h, message, now) ==
    [status |-> HTTP_ERROR,
     body |-> [success |-> FALSE, error |-> Text("Internal server error"),
               timestamp |-> now]]

\* the catch block of handler h
catchResponse(v, h, message, now) ==
    [status |-> HTTP_ERROR,
     body |-> IF h = "ticker"
              THEN [success |-> FALSE, error |-> tickerError(v),
                    message |-> message, timestamp |-> now]
              ELSE [success |-> FALSE, error |-> message, timestamp |-> now]]

\* what the try block computes from the fetched data
shape(v, h, data) ==
    CASE h = "ticker" -> filterCall(data, "data", mainPairs(v, h))
      [] h = "price" -> Returned(data)
      [] h = "klines" -> mapCandles(data)
      [] h = "exchangeInfo" -> filterSymbols(data, mainPairs(v, h))

\* successBody with `count` taken from the upstream payload, not from the
\* shaped list
successBody_RawCount(v, h, req, data, shaped, now) ==
    CASE h = "ticker" /\ v = "fetchBinance" ->
            [success |-> TRUE, count |-> Len(data.a),
             timestamp |-> now, data |-> shaped]
      [] h = "ticker" /\ v # "fetchBinance" ->
            [success |-> TRUE, source |-> source(v), count |-> Len(data.a),
             timestamp |-> now, data |-> shaped]
      [] h = "price" /\ v = "fetchBinance" ->
            [success |-> TRUE, timestamp |-> now, data |-> shaped]
      [] h = "price" /\ v # "fetchBinance" ->
            [success |-> TRUE, source |-> source(v),
             timestamp |-> now, data |-> shaped]
      [] h = "klines" /\ v = "fetchBinance" ->
            [success |-> TRUE,
             symbol |-> orDefault(req.query.symbol, "BTCUSDT"),
             interval |-> orDefault(req.query.interval, "1h"),
             count |-> Len(data.a), timestamp |-> now, data |-> shaped]
      [] h = "klines" /\ v # "fetchBinance" ->
            [success |-> TRUE, source |-> source(v),
             symbol |-> orDefault(req.query.symbol, "BTCUSDT"),
             interval |-> orDefault(req.query.interval, "1h"),
             count |-> Len(data.a), timestamp |-> now, data |-> shaped]
      [] h = "exchangeInfo" ->
            [success |-> TRUE, timestamp |-> now,
             timezone |-> Get(data, Text("timezone")),
             serverTime |-> Get(data, Text("serverTime")),
             symbols |-> shaped]

\* res.json({...}) of the try block
successBody(v, h, req, data, shaped, now) ==
    CASE h = "ticker" /\ v = "fetchBinance" ->
            [success |-> TRUE, count |-> Len(shaped),
             timestamp |-> now, data |-> shaped]
      [] h = "ticker" /\ v # "fetchBinance" ->
            [success |-> TRUE, source |-> source(v), count |-> Len(shaped),
             timestamp |-> now, data |-> shaped]
      [] h = "price" /\ v = "fetchBinance" ->
            [success |-> TRUE, timestamp |-> now, data |-> shaped]
      [] h = "price" /\ v # "fetchBinance" ->
            [success |-> TRUE, source |-> source(v),
             timestamp |-> now, data |-> shaped]
      [] h = "klines" /\ v = "fetchBinance" ->
            [success |-> TRUE,
             symbol |-> orDefault(req.query.symbol, "BTCUSDT"),
             interval |-> orDefault(req.query.interval, "1h"),
             count |-> Len(shaped), timestamp |-> now, data |-> shaped]
      [] h = "klines" /\ v # "fetchBinance" ->
            [success |-> TRUE, source |-> source(v),
             symbol |-> orDefault(req.query.symbol, "BTCUSDT"),
             interval |-> orDefault(req.query.interval, "1h"),
             count |-> Len(shaped), timestamp |-> now, data |-> shaped]
      [] h = "exchangeInfo" ->
            [success |-> TRUE, timestamp |-> now,
             timezone |-> Get(data, Text("timezone")),
             serverTime |-> Get(data, Text("serverTime")),
             symbols |-> shaped]

\* the handler's continuation after `await`: try block, or catch block
respond(v, h, req, promise, now) ==
    IF promise.state = "rejected"
    THEN catchResponse(v, h, promise.message, now)
    ELSE LET sent(shaped) ==
                IF shaped.ok
                THEN [status |-> HTTP_OK,
                      body |-> successBody(v, h, req, promise.value,
                                           shaped.val, now)]
                ELSE catchResponse(v, h, shaped.message, now)
         IN  sent(shape(v, h, promise.value))

\* the `endpoints` object of GET /
endpointList(v) ==
    IF v = "fetchBinance"
    THEN [health |-> Text("/"), binanceTicker |-> Text("/api/binance/ticker"),
          binancePrice |-> Text("/api/binance/price/:symbol?"),
          binanceKlines |-> Text("/api/binance/klines")]
    ELSE [health |-> Text("/"), binanceTicker |-> Text("/api/binance/ticker"),
          binancePrice |-> Text("/api/binance/price/:symbol?")]

\* GET / and GET /health; now stands for process.uptime() as well
localResponse(v, h, now) ==
    [status |-> HTTP_OK,
     body |->
        CASE h = "health" -> [status |-> Text("ok"), uptime |-> now]
          [] h = "info" /\ v = "fetchBinance" ->
                [status |-> Text("ok"),
                 message |-> Text("Crypto Trading Bot Backend (with proxy)"),
                 version |-> Text("1.0.1"), timestamp |-> now,
                 endpoints |-> endpointList(v)]
          [] h = "info" /\ v = "fetchBinanceUS" ->
                [status |-> Text("ok"), message |-> Text("Crypto Trading Bot Backend"),
                 version |-> Text("4.0.0"), dataSource |-> Text("Binance.US API"),
                 timestamp |-> now, endpoints |-> endpointList(v)]
          [] h = "info" /\ v = "fetchBinanceData" ->
                [status |-> Text("ok"),
                 message |->
                    Text("Crypto Trading Bot Backend (Alternative Binance API)"),
                 version |-> Text("2.0.0"), timestamp |-> now,
                 binanceEndpoint |-> Text("data.binance.com"),
                 endpoints |-> endpointList(v)]]

\* the 404 handler
notFoundResponse(v, path) ==
    [status |-> HTTP_NOT_FOUND,
     body |->
        IF v = "fetchBinance"
        THEN [success |-> FALSE, error |-> Text("Endpoint not found"), path |-> path,
              availableEndpoints |->
                [health |-> Text("/"), binanceTicker |-> Text("/api/binance/ticker"),
                 binancePrice |-> Text("/api/binance/price/:symbol?"),
                 binanceKlines |-> Text("/api/binance/klines"),
                 exchangeInfo |-> Text("/api/binance/exchangeInfo")]]
        ELSE [success |-> FALSE, error |-> Text("Endpoint not found"), path |-> path]]

\* the global error handler, reached by next(err)
errorHandlerResponse(message) ==
    [status |-> HTTP_ERROR,
     body |-> [success |-> FALSE, error |-> Text("Internal server error"),
               message |-> message]]

\* the upstream requests one call of the fetcher issues for handler h: one,
\* or none when https.request throws
fetchRequests(v, h, req) ==
    IF unescaped(requestPath(v, h, req)) THEN <<>>
    ELSE <<[hostname |-> hostname(v), path |-> requestPath(v, h, req)]>>

(***************************************************************************)
(* Inputs: inbound requests and upstream behaviour                         *)
(***************************************************************************)
Reqs == {"r1"}

\* the paths of inbound requests: each route as it is registered, the
\* price route with a symbol, a route in another case and with a trailing
\* '/', a symbol with an encoded space, the symbols U+20AC and "stra" U+00DF
\* "e" in their UTF-8 escapes, a symbol that does not decode, and a path no
\* route matches
Paths ==
    {Text("/"), Text("/health"), Text("/api/binance/ticker"),
     Text("/api/binance/price"), Text("/api/binance/klines"),
     Text("/api/binance/exchangeInfo"), Text("/api/unknown"),
     Text("/api/binance/price/btcusdt"), Text("/API/Binance/Ticker/"),
     Text("/api/binance/price/btc%20usdt"),
     Text("/api/binance/price/%E2%82%AC"),
     Text("/api/binance/price/stra%C3%9Fe"),
     Text("/api/binance/price/%zz")}

Origins ==
    {NoOrigin, Text("http://localhost:3000"), Text("https://x.onrender.com"),
     Text("https://evil.example.com"), Text("https://evilonrender.com")}

\* the inbound requests of Spec, each a path and an Origin header: every
\* path without the header, and two paths with each header
Inbound ==
    (Paths \X {NoOrigin})
        \cup ({Text("/health"), Text("/api/binance/ticker")} \X Origins)

\* the symbols of upstream entries: one in every allow-list, one in none
PayloadSymbols == {Text("BTCUSDT"), Text("FOOUSDT")}

MaxEntries == 2

\* the symbol lists of upstream payloads: all up to MaxEntries entries, and
\* three with XRPUSDT, which only the 15-member ticker lists hold
Payloads ==
    UNION {[1..n -> PayloadSymbols] : n \in 0..MaxEntries}
        \cup {<<Text("XRPUSDT"), Text("BTCUSDT")>>,
              <<Text("XRPUSDT"), Text("FOOUSDT"), Text("BTCUSDT")>>,
              <<Text("BTCUSDT"), Text("FOOUSDT"), Text("XRPUSDT"),
                Text("BTCUSDT")>>}

\* The bodies of the upstream's responses are the bytes of their UTF-8;
\* those of a text in ASCII are its code units.
entryText(sym) == Text("{\"symbol\":\"") \o sym \o Text("\"}")

\* the texts joined by commas
joinTexts(texts) ==
    Flat([j \in 1..(2 * Len(texts) - 1) |->
            IF j % 2 = 1 THEN texts[(j + 1) \div 2] ELSE <<44>>],
         1, 2 * Len(texts) - 1)

\* the upstream's ticker body for a list of symbols
arrayText(p) ==
    <<91>> \o joinTexts([j \in 1..Len(p) |-> entryText(p[j])]) \o <<93>>

\* the upstream's exchangeInfo body for a list of symbols
infoText(p) ==
    Text("{\"timezone\":\"UTC\",\"serverTime\":1700000000,\"symbols\":")
        \o arrayText(p) \o Text("}")

LongLen == 201

\* a JSON string literal of more than ERR_BODY_CHARS characters
longText == <<34>> \o [j \in 1..LongLen |-> 120] \o <<34>>

AccentLen == 30

\* a JSON object whose text is AccentLen times U+00C9, of two bytes each:
\* the 28th begins with the 64th byte of the body
accentText ==
    Text("{\"text\":\"")
        \o [j \in 1..(2 * AccentLen) |-> IF j % 2 = 1 THEN 195 ELSE 137]
        \o Text("\"}")

priceText == Text("{\"symbol\":\"BTCUSDT\",\"price\":\"42000.5\"}")

klinesText ==
    Text("[[1700000000,\"100.0\",\"110.0\",\"90.0\",\"105.0\",\"50.0\",")
        \o Text("1700003599,\"5250.0\",42,\"25.0\",\"2600.0\",\"0\"]]")

\* strings with escapes (U+0008, U+00E9, a surrogate pair), and numbers at
\* the ends of the doubles' range and precision
escapesText == Text("{\"msg\":\"\\b\\u00e9\\ud83d\\ude00\"}")

numbersText == Text("[1e-400,-1e-400,4e-324,1e309,9007199254740993,0.1]")

OtherBodies ==
    {<<>>, Text("<html>Too many requests</html>"),
     Text("[{\"symbol\":\"BTCUSDT\"},"),
     Text("{\"code\":1003,\"msg\":\"Too many requests\"}"), Text("null"),
     Text("[{\"price\":\"1\"},{\"symbol\":\"btcusdt\"},null]"),
     Text("[{\"symbol\":12},\"BTCUSDT\",{\"symbol\":\"BTCUSDT\",\"price\":\"1\"}]"),
     Text("[ {\"symbol\" : \"BTC\\u0055SDT\"} ,\n{\"symbol\":\"FOO\\/USDT\"}\t]\r\n"),
     Text("{\"price\":\"1\",\"10\":2,\"9\":3}"), Text("\"a\tb\""),
     longText, accentText, priceText, klinesText, escapesText}

Bodies ==
    {arrayText(p) : p \in Payloads}
        \cup {infoText(p) : p \in {q \in Payloads : Len(q) <= 2}}
        \cup OtherBodies

ErrorStatuses == {429, 502}

\* the bodies of the upstream's error answers, valid JSON or not
ErrorBodies ==
    {<<>>, Text("<html>Too many requests</html>"),
     Text("{\"code\":1003,\"msg\":\"Too many requests\"}"),
     longText, accentText, arrayText(<<Text("BTCUSDT")>>)}

\* Upstream kline rows: the JSON texts of the row's cells, and the candle
\* the row stands for.  RowA2 is RowA with cells 7 and 9..11 changed;
\* RowB has a decimal of 34 digits, an Infinity, a no-break space, an
\* integer beyond 2^53 and a negative zero; RowMixed has a number, leading white
\* space (a space and an escaped tab), an exponent and a unit among its
\* prices; RowShort has an Infinity and ends after the close time.
RowA ==
    [cells |-> <<Text("1000"), Text("\"100.0\""), Text("\"110.0\""),
                 Text("\"90.0\""), Text("\"105.0\""), Text("\"50.0\""),
                 Text("1999"), Text("\"5250.0\""), Text("42"),
                 Text("\"25.0\""), Text("\"2600.0\""), Text("\"0\"")>>,
     candle |-> [openTime |-> Num(1000), open |-> Num(100),
                 high |-> Num(110), low |-> Num(90), close |-> Num(105),
                 volume |-> Num(50), closeTime |-> Num(1999),
                 trades |-> Num(42)]]

RowA2 ==
    [cells |-> <<Text("1000"), Text("\"100.0\""), Text("\"110.0\""),
                 Text("\"90.0\""), Text("\"105.0\""), Text("\"50.0\""),
                 Text("1999"), Text("\"7.7\""), Text("42"), Text("\"1.0\""),
                 Text("\"2.0\""), Text("\"9\"")>>,
     candle |-> RowA.candle]

RowB ==
    [cells |-> <<Text("2000"), Text("\"0.1000000000000000055511151231257827\""),
                 Text("\"1e309\""),
                 Text("\"\\u00a00.5\""), Text("\"9007199254740993\""),
                 Text("\"-1e-400\""), Text("2999"), Text("\"1\""),
                 Text("7"), Text("\"1\""), Text("\"1\""), Text("\"0\"")>>,
     candle |-> [openTime |-> Num(2000),
                 open |-> Decimal(FALSE, <<1>>, 0 - 1),
                 high |-> Infinity(FALSE),
                 low |-> Decimal(FALSE, <<5>>, 0 - 1),
                 close |-> Decimal(FALSE,
                            <<9, 0, 0, 7, 1, 9, 9, 2, 5, 4, 7, 4, 0, 9, 9, 2>>, 0),
                 volume |-> NegZero, closeTime |-> Num(2999),
                 trades |-> Num(7)]]

RowMixed ==
    [cells |-> <<Text("3000"), Text("100"), Text("\" \\t110.5\""),
                 Text("\"9e1\""), Text("\"105 USDT\""), Text("\"abc\""),
                 Text("3999"), Text("\"1\""), Text("0"), Text("\"1\""),
                 Text("\"1\""), Text("\"0\"")>>,
     candle |-> [openTime |-> Num(3000), open |-> Num(100),
                 high |-> Decimal(FALSE, <<1, 1, 0, 5>>, 0 - 1),
                 low |-> Num(90), close |-> Num(105), volume |-> NaN,
                 closeTime |-> Num(3999), trades |-> Num(0)]]

RowShort ==
    [cells |-> <<Text("4000"), Text("\"1.0\""), Text("\"2.0\""),
                 Text("\"0.5\""), Text("\"1.5\""), Text("\"Infinity\""),
                 Text("4999")>>,
     candle |-> [openTime |-> Num(4000), open |-> Num(1),
                 high |-> Num(2), low |-> Decimal(FALSE, <<5>>, 0 - 1),
                 close |-> Decimal(FALSE, <<1, 5>>, 0 - 1),
                 volume |-> Infinity(FALSE), closeTime |-> Num(4999),
                 trades |-> Undefined]]

\* the rows of the model, by name
KlineRows ==
    [name \in {"A", "A2", "B", "Mixed", "Short"} |->
        CASE name = "A" -> RowA
          [] name = "A2" -> RowA2
          [] name = "B" -> RowB
          [] name = "Mixed" -> RowMixed
          [] name = "Short" -> RowShort]

MaxRows == 2

\* the lists of rows (of their names) an upstream klines payload holds:
\* all of up to MaxRows of the three full rows, and four with the others
KlineRowLists ==
    UNION {[1..n -> {"A", "A2", "B"}] : n \in 0..MaxRows}
        \cup {<<"Mixed">>, <<"Short">>, <<"Mixed", "Short">>,
              <<"Short", "B", "Mixed", "A">>}

\* the upstream's klines body for a list of rows
klinesBody(rows) ==
    <<91>> \o joinTexts([j \in 1..Len(rows) |->
                <<91>> \o joinTexts(KlineRows[rows[j]].cells) \o <<93>>])
        \o <<93>>

\* the klines bodies of the model, by the rows they are written from
klinesBodies == [rows \in KlineRowLists |-> klinesBody(rows)]

\* the ticker bodies of the model, by the symbols they are written from
tickerBodies == [p \in Payloads |-> arrayText(p)]

\* what the upstream may answer: a status line and a body
Responses == ({HTTP_OK} \X Bodies) \cup (ErrorStatuses \X ErrorBodies)

\* the messages of the request's 'error' event
TransportErrors == {Text("getaddrinfo ENOTFOUND"), Text("read ECONNRESET")}

\* the query strings of the klines requests of HandlerSpec, as req.query
Queries ==
    {NoQuery,
     [symbol |-> Str(Text("btcusdt")), interval |-> Undefined, limit |-> Undefined],
     [symbol |-> Str(Text("BTCUSDT")), interval |-> Undefined, limit |-> Undefined],
     [symbol |-> Str(Text("EthUsdt")), interval |-> Str(Text("5m")), limit |-> Str(Text("24"))],
     [symbol |-> Str(Text("ETHUSDT")), interval |-> Str(Text("5m")), limit |-> Str(Text("24"))],
     [symbol |-> Undefined, interval |-> Str(Text("1d")), limit |-> Undefined],
     [symbol |-> Undefined, interval |-> Undefined, limit |-> Str(Text("1000"))],
     [symbol |-> Str(<<>>), interval |-> Undefined, limit |-> Undefined]}

\* the paths of the price requests of HandlerSpec: without a symbol, with
\* spellings of two symbols, one of them with an encoded letter, and with
\* the symbols "stra" U+00DF "e" and U+20AC
PricePaths ==
    {Text("/api/binance/price"), Text("/api/binance/price/"),
     Text("/api/binance/price/btcusdt"), Text("/api/binance/price/BTCUSDT"),
     Text("/api/binance/price/EthUsdt"),
     Text("/Api/Binance/Price/eth%55sdt/"),
     Text("/api/binance/price/stra%C3%9Fe"),
     Text("/api/binance/price/%E2%82%AC")}

\* the inbound requests of HandlerSpec, each a path and a query
HandlerRequests ==
    ({Text("/api/binance/ticker")} \X {NoQuery})
        \cup (PricePaths \X {NoQuery})
        \cup ({Text("/api/binance/klines")} \X Queries)

\* bodies that are not what the handler expects of its endpoint
OddBodies ==
    {priceText, Text("null"),
     Text("{\"code\":1003,\"msg\":\"Too many requests\"}"),
     Text("[null]"), Text("[\"ab\",{\"0\":1}]"), escapesText,
     arrayText(<<Text("BTCUSDT")>>)}

KlinesHandlerBodies ==
    {klinesBodies[rows] : rows \in KlineRowLists} \cup OddBodies

TickerHandlerBodies == {tickerBodies[p] : p \in Payloads} \cup OddBodies

PriceHandlerBodies == OddBodies \cup {numbersText}

\* what the upstream answers to the request of handler h: a body of the
\* endpoint asked for, or an odd one
HandlerBodies(h) ==
    CASE h = "klines" -> KlinesHandlerBodies
      [] h = "ticker" -> TickerHandlerBodies
      [] OTHER -> PriceHandlerBodies

\* the inbound requests and upstream behaviour of ConcSpec: a ticker request
\* and a price request in flight at once, bodies arriving in chunks of
\* ConcChunkLen bytes
ConcReqs == {"r1", "r2"}

ConcPath(r) ==
    IF r = "r1" THEN Text("/api/binance/ticker")
    ELSE Text("/api/binance/price")

ConcResponses ==
    {<<HTTP_OK, arrayText(<<Text("BTCUSDT"), Text("FOOUSDT")>>)>>,
     <<429, Text("{\"code\":1003,\"msg\":\"Too many requests\"}")>>}

ConcChunkLen == 32

\* the size of the chunks of a body that does not arrive in one piece
ChunkLen == 64

TicksPerTimeout == 2

\* the step of the model's clock, in ms
Quantum == TIMEOUT_MS \div TicksPerTimeout

\* the clock of a request stops here
ElapsedCap == TIMEOUT_MS + Quantum

(***************************************************************************)
(* State                                                                   *)
(***************************************************************************)
VARIABLES
    variant,    \* the deployment that runs
    inbound,    \* inbound[r]: the inbound request r, once received
    handled,    \* handled[r]: the handler r reached, "none" before
    outbound,   \* outbound[r]: the upstream requests issued for r
    conn,       \* conn[r]: the upstream request/response of r
    promise,    \* promise[r]: the promise the fetcher returned for r
    responses,  \* responses[r]: the HTTP responses sent to r
    idle,       \* idle[r]: ms since the idle timer of r's socket was started
    elapsed     \* elapsed[r]: ms since r's upstream request was issued

vars ==
    <<variant, inbound, handled, outbound, conn, promise, responses,
      idle, elapsed>>

NoRequest ==
    [received |-> FALSE, path |-> <<>>, origin |-> <<>>,
     params |-> NoParams, query |-> NoQuery]

\* body and rest are the bytes the upstream sends and those yet to arrive,
\* data is the fetcher's `data`; deferred says that the idle timer has
\* expired once while the TLS handshake was under way
NoConn ==
    [state |-> "none", hasRes |-> FALSE, statusCode |-> 0,
     body |-> <<>>, rest |-> <<>>, data |-> <<>>, error |-> <<>>,
     deferred |-> FALSE, lateError |-> FALSE]

Init ==
    /\ variant \in Variants
    /\ inbound = [r \in Reqs |-> NoRequest]
    /\ handled = [r \in Reqs |-> "none"]
    /\ outbound = [r \in Reqs |-> <<>>]
    /\ conn = [r \in Reqs |-> NoConn]
    /\ promise = [r \in Reqs |-> NoPromise]
    /\ responses = [r \in Reqs |-> <<>>]
    /\ idle = [r \in Reqs |-> 0]
    /\ elapsed = [r \in Reqs |-> 0]

\* r's upstream request has a socket that is connecting, in its TLS
\* handshake, or ready
Live(r) == conn[r].state \in {"connecting", "handshake", "open"}

\* the socket of r has an idle timer whose expiry the fetcher listens to:
\* the callback of req.setTimeout is a listener of the request's 'timeout'
\* event, whichever timeout the socket carries
Armed(r) == hasTimeout(variant) /\ Live(r)

\* the time the idle timer of r's socket runs for: the agent's while the
\* socket connects, the one of req.setTimeout once it is connected
TimerLimit(r) ==
    IF conn[r].state = "connecting" THEN AGENT_TIMEOUT_MS ELSE TIMEOUT_MS

(***************************************************************************)
(* Actions                                                                 *)
(***************************************************************************)
\* the request as r's handler sees it
ReqOf(r) == [params |-> inbound[r].params, query |-> inbound[r].query]

\* An inbound GET passes the cors middleware, the router and the handler's
\* synchronous part, which issues the upstream request.  When https.request
\* throws, the fetcher's promise is rejected at once and the handler's catch
\* block answers.
Receive(r, path, origin, query) ==
    LET h == Handler(variant, path)
        params == routeParams(variant, path)
        req == [params |-> params.val, query |-> query]
    IN  /\ ~inbound[r].received
        /\ inbound' = [inbound EXCEPT
                          ![r] = [received |-> TRUE, path |-> path,
                                  origin |-> origin,
                                  params |-> IF params.ok THEN params.val
                                             ELSE NoParams,
                                  query |-> query]]
        /\ IF ~corsAllows(origin)
           THEN /\ responses' = [responses EXCEPT
                        ![r] = <<errorHandlerResponse(Text("Not allowed by CORS"))>>]
                /\ UNCHANGED <<handled, outbound, conn, promise>>
           ELSE IF ~params.ok
           THEN /\ responses' = [responses EXCEPT
                        ![r] = <<errorHandlerResponse(params.message)>>]
                /\ UNCHANGED <<handled, outbound, conn, promise>>
           ELSE IF h \in UpstreamHandlers
                    /\ unescaped(requestPath(variant, h, req))
           THEN /\ handled' = [handled EXCEPT ![r] = h]
                /\ outbound' = [outbound EXCEPT
                        ![r] = @ \o fetchRequests(variant, h, req)]
                /\ promise' = [promise EXCEPT
                        ![r] = Rejected(UNESCAPED_MESSAGE)]
                /\ responses' = [responses EXCEPT
                        ![r] = <<respond(variant, h, req,
                                         Rejected(UNESCAPED_MESSAGE), 0)>>]
                /\ UNCHANGED conn
           ELSE IF h \in UpstreamHandlers
           THEN /\ handled' = [handled EXCEPT ![r] = h]
                /\ outbound' = [outbound EXCEPT
                        ![r] = @ \o fetchRequests(variant, h, req)]
                /\ conn' = [conn EXCEPT
                        ![r] = [NoConn EXCEPT !.state = "connecting"]]
                /\ promise' = [promise EXCEPT ![r] = Pending]
                /\ UNCHANGED responses
           ELSE /\ handled' = [handled EXCEPT ![r] = h]
                /\ responses' = [responses EXCEPT
                        ![r] = <<IF h = "notFound"
                                 THEN notFoundResponse(variant, path)
                                 ELSE localResponse(variant, h, 0)>>]
                /\ UNCHANGED <<outbound, conn, promise>>
        /\ UNCHANGED <<variant, idle, elapsed>>

\* the socket of r's upstream request is connected: the timeout of
\* req.setTimeout starts to run on it, and the TLS handshake begins
Connect(r) ==
    /\ conn[r].state = "connecting"
    /\ conn' = [conn EXCEPT ![r].state = "handshake"]
    /\ idle' = [idle EXCEPT ![r] = 0]
    /\ UNCHANGED <<variant, inbound, handled, outbound, promise, responses, elapsed>>

\* the TLS handshake of r's socket is complete and the request is written
SecureConnect(r) ==
    /\ conn[r].state = "handshake"
    /\ conn' = [conn EXCEPT ![r].state = "open"]
    /\ idle' = [idle EXCEPT ![r] = 0]
    /\ UNCHANGED <<variant, inbound, handled, outbound, promise, responses, elapsed>>

\* The idle timer of r's socket expires during the TLS handshake for the
\* first time: the socket has written since the timer was started (its
\* part of the handshake), so it starts the timer again and emits nothing.
TimeoutDeferred(r) ==
    /\ conn[r].state = "handshake"
    /\ ~conn[r].deferred
    /\ idle[r] >= TimerLimit(r)
    /\ conn' = [conn EXCEPT ![r].deferred = TRUE]
    /\ idle' = [idle EXCEPT ![r] = 0]
    /\ UNCHANGED <<variant, inbound, handled, outbound, promise, responses, elapsed>>

\* the responses of r after its promise went from p to q: the awaiting
\* handler resumes when the promise settles
Resume(r, p, q) ==
    IF p.state = "pending" /\ q.state # "pending"
    THEN Append(responses[r],
                respond(variant, handled[r], ReqOf(r), q, elapsed[r]))
    ELSE responses[r]

\* the https.request callback: the response's status line and headers arrive
ResponseHead(r, statusCode, body) ==
    /\ conn[r].state = "open"
    /\ ~conn[r].hasRes
    /\ conn' = [conn EXCEPT ![r] = [@ EXCEPT !.hasRes = TRUE,
                                            !.statusCode = statusCode,
                                            !.body = body,
                                            !.rest = body,
                                            !.data = <<>>]]
    /\ idle' = [idle EXCEPT ![r] = 0]
    /\ UNCHANGED <<variant, inbound, handled, outbound, promise, responses, elapsed>>

\* ResData with `data` declared once for the module instead of once per
\* response: a chunk is appended to what every response in progress reads
ResData_SharedBuffer(r, n) ==
    /\ conn[r].state = "open"
    /\ conn[r].hasRes
    /\ n >= 1 /\ n <= Len(conn[r].rest)
    /\ conn' = [q \in DOMAIN conn |->
            IF q = r
            THEN [conn[q] EXCEPT
                    !.data = @ \o utf8Decode(SubSeq(conn[r].rest, 1, n)),
                    !.rest = SubSeq(conn[r].rest, n + 1, Len(conn[r].rest))]
            ELSE IF conn[q].state = "open" /\ conn[q].hasRes
            THEN [conn[q] EXCEPT
                    !.data = @ \o utf8Decode(SubSeq(conn[r].rest, 1, n))]
            ELSE conn[q]]
    /\ idle' = [idle EXCEPT ![r] = 0]
    /\ UNCHANGED <<variant, inbound, handled, outbound, promise, responses, elapsed>>

\* res.on('data'): the next n bytes of the body arrive in one chunk, and
\* `data += chunk` appends the text the chunk decodes to by itself
ResData(r, n) ==
    /\ conn[r].state = "open"
    /\ conn[r].hasRes
    /\ n >= 1 /\ n <= Len(conn[r].rest)
    /\ conn' = [conn EXCEPT ![r] =
            [@ EXCEPT !.data = @ \o utf8Decode(SubSeq(conn[r].rest, 1, n)),
                      !.rest = SubSeq(conn[r].rest, n + 1, Len(conn[r].rest))]]
    /\ idle' = [idle EXCEPT ![r] = 0]
    /\ UNCHANGED <<variant, inbound, handled, outbound, promise, responses, elapsed>>

\* res.on('end'): the body is complete
ResEnd(r) ==
    LET q == Settle(promise[r], onEnd(variant, conn[r].statusCode, conn[r].data))
    IN  /\ conn[r].state = "open"
        /\ conn[r].hasRes
        /\ conn[r].rest = <<>>
        /\ conn' = [conn EXCEPT ![r].state = "ended"]
        /\ promise' = [promise EXCEPT ![r] = q]
        /\ responses' = [responses EXCEPT ![r] = Resume(r, promise[r], promise'[r])]
        /\ UNCHANGED <<variant, inbound, handled, outbound, idle, elapsed>>

\* req.on('error'): the transport fails before the response has ended
ReqError(r, error) ==
    LET q == Settle(promise[r], onError(error))
    IN  /\ Live(r)
        /\ conn' = [conn EXCEPT ![r] = [@ EXCEPT !.state = "errored",
                                                !.error = error]]
        /\ promise' = [promise EXCEPT ![r] = q]
        /\ responses' = [responses EXCEPT ![r] = Resume(r, promise[r], promise'[r])]
        /\ UNCHANGED <<variant, inbound, handled, outbound, idle, elapsed>>

\* the req.setTimeout callback: the idle timer of the socket has expired,
\* for the second time when the TLS handshake is under way
Timeout(r) ==
    LET q == Settle(promise[r], onTimeout)
    IN  /\ Armed(r)
        /\ idle[r] >= TimerLimit(r)
        /\ conn[r].state = "handshake" => conn[r].deferred
        /\ conn' = [conn EXCEPT ![r].state = "destroyed"]
        /\ promise' = [promise EXCEPT ![r] = q]
        /\ responses' = [responses EXCEPT ![r] = Resume(r, promise[r], promise'[r])]
        /\ UNCHANGED <<variant, inbound, handled, outbound, idle, elapsed>>

\* the 'error' event ("socket hang up") of a request that the timeout
\* callback destroyed before any response had begun.  Once a response has
\* begun, req.destroy() makes the response emit 'aborted' and the request
\* 'close', which no listener of the fetcher hears: no 'error' and no 'end'.
LateError(r) ==
    LET q == Settle(promise[r], onError(Text("socket hang up")))
    IN  /\ conn[r].state = "destroyed"
        /\ ~conn[r].hasRes
        /\ ~conn[r].lateError
        /\ conn' = [conn EXCEPT ![r].lateError = TRUE]
        /\ promise' = [promise EXCEPT ![r] = q]
        /\ responses' = [responses EXCEPT ![r] = Resume(r, promise[r], promise'[r])]
        /\ UNCHANGED <<variant, inbound, handled, outbound, idle, elapsed>>

\* The upstream closes the connection before the body is complete: the
\* response emits 'aborted' and the request 'close', which no listener of
\* the fetcher hears; the socket is gone, and its timer with it.
ResAborted(r) ==
    /\ conn[r].state = "open"
    /\ conn[r].hasRes
    /\ conn[r].rest # <<>>
    /\ conn' = [conn EXCEPT ![r].state = "aborted"]
    /\ UNCHANGED <<variant, inbound, handled, outbound, promise, responses,
                   idle, elapsed>>

\* The socket of r reads bytes that complete no event of the request or the
\* response (a part of the status line or of the headers, the size line of
\* a chunk): the fetcher hears nothing, and the idle timer, if one is
\* running, starts again.
SocketRead(r) ==
    /\ conn[r].state = "open"
    /\ idle' = [idle EXCEPT ![r] = 0]
    /\ UNCHANGED <<variant, inbound, handled, outbound, conn, promise,
                   responses, elapsed>>

\* how far the clock may advance: not past the expiry of an idle timer
StepOf(quantum) ==
    LET due == {TimerLimit(r) - idle[r] : r \in {q \in DOMAIN conn : Armed(q)}}
    IN  IF \E d \in due : d < quantum
        THEN CHOOSE d \in due : \A e \in due : d <= e
        ELSE quantum

Step == StepOf(Quantum)

\* d ms pass while an upstream request is in flight
Advance(d) ==
    /\ \E r \in DOMAIN conn :
            /\ Live(r)
            /\ Armed(r) \/ elapsed[r] < ElapsedCap
    /\ \A r \in DOMAIN conn : Armed(r) => idle[r] < TimerLimit(r)
    /\ idle' = [r \in DOMAIN conn |->
            IF Armed(r) THEN idle[r] + d ELSE idle[r]]
    /\ elapsed' = [r \in DOMAIN conn |->
            IF Live(r)
            THEN Min(elapsed[r] + d, ElapsedCap) ELSE elapsed[r]]
    /\ UNCHANGED <<variant, inbound, handled, outbound, conn, promise, responses>>

\* the clock of the model advances by one step
Tick == Advance(Step)

Next ==
    \/ \E r \in Reqs, rq \in Inbound : Receive(r, rq[1], rq[2], NoQuery)
    \/ \E r \in Reqs : Connect(r)
    \/ \E r \in Reqs : SecureConnect(r)
    \/ \E r \in Reqs : TimeoutDeferred(r)
    \/ \E r \in Reqs, resp \in Responses : ResponseHead(r, resp[1], resp[2])
    \/ \E r \in Reqs : ResData(r, Min(ChunkLen, Len(conn[r].rest)))
    \/ \E r \in Reqs : ResData(r, Len(conn[r].rest))
    \/ \E r \in Reqs : ResEnd(r)
    \/ \E r \in Reqs, error \in TransportErrors : ReqError(r, error)
    \/ \E r \in Reqs : Timeout(r)
    \/ \E r \in Reqs : LateError(r)
    \/ \E r \in Reqs : ResAborted(r)
    \/ \E r \in Reqs : SocketRead(r)
    \/ Tick

Spec == Init /\ [][Next]_vars

\* The handlers' data path: requests with parameters, answered by an upstream
\* that sends a 200 with a body in one piece, written for the endpoint asked
\* for or not.
HandlerNext ==
    \/ \E r \in Reqs, rq \in HandlerRequests :
            Receive(r, rq[1], NoOrigin, rq[2])
    \/ \E r \in Reqs : Connect(r)
    \/ \E r \in Reqs : SecureConnect(r)
    \/ \E r \in Reqs : \E body \in HandlerBodies(handled[r]) :
            ResponseHead(r, HTTP_OK, body)
    \/ \E r \in Reqs : ResData(r, Len(conn[r].rest))
    \/ \E r \in Reqs : ResEnd(r)

HandlerSpec == Init /\ [][HandlerNext]_vars

\* Two inbound requests served by one process: the events of their upstream
\* connections interleave in any order while the clock advances by the
\* time of the shortest timer, or less when a timer expires before.
ConcInit ==
    /\ variant \in Variants
    /\ inbound = [r \in ConcReqs |-> NoRequest]
    /\ handled = [r \in ConcReqs |-> "none"]
    /\ outbound = [r \in ConcReqs |-> <<>>]
    /\ conn = [r \in ConcReqs |-> NoConn]
    /\ promise = [r \in ConcReqs |-> NoPromise]
    /\ responses = [r \in ConcReqs |-> <<>>]
    /\ idle = [r \in ConcReqs |-> 0]
    /\ elapsed = [r \in ConcReqs |-> 0]

ConcNext ==
    \/ \E r \in ConcReqs : Receive(r, ConcPath(r), NoOrigin, NoQuery)
    \/ \E r \in ConcReqs : Connect(r)
    \/ \E r \in ConcReqs : SecureConnect(r)
    \/ \E r \in ConcReqs : TimeoutDeferred(r)
    \/ \E r \in ConcReqs, resp \in ConcResponses :
            ResponseHead(r, resp[1], resp[2])
    \/ \E r \in ConcReqs : ResData(r, Min(ConcChunkLen, Len(conn[r].rest)))
    \/ \E r \in ConcReqs : ResEnd(r)
    \/ \E r \in ConcReqs : ReqError(r, Text("read ECONNRESET"))
    \/ \E r \in ConcReqs : ResAborted(r)
    \/ \E r \in ConcReqs : Timeout(r)
    \/ \E r \in ConcReqs : LateError(r)
    \/ \E r \in ConcReqs : SocketRead(r)
    \/ Advance(StepOf(AGENT_TIMEOUT_MS))

ConcSpec == ConcInit /\ [][ConcNext]_vars

\* the timer's expiry and the passing of time are not postponed forever,
\* and a connection attempt does not go on forever: it ends with the
\* socket connected or with an error
FairSpec ==
    /\ Spec
    /\ WF_vars(Tick)
    /\ \A r \in Reqs :
            /\ WF_vars(Timeout(r))
            /\ WF_vars(TimeoutDeferred(r))
            /\ WF_vars(Connect(r))

(***************************************************************************)
(* Properties                                                              *)
(***************************************************************************)
\* r's upstream call is in flight and no part of a response has arrived
Unanswered(r) == Live(r) /\ ~conn[r].hasRes

\* C1: with every fetcher, a call whose request was sent and whose upstream
\* never delivers a response is eventually rejected with 'Request timeout'
\* (unless a response or a transport error arrives after all): no call
\* stays pending forever.
C1_SilentUpstreamTimesOut ==
    \A r \in Reqs :
        Unanswered(r) ~> (\/ conn[r].hasRes
                          \/ conn[r].state = "errored"
                          \/ promise[r] = Rejected(Text("Request timeout")))

\* what holds of the two fetchers that call req.setTimeout: the call times
\* out when the upstream sends nothing at all from some moment on; bytes
\* that keep arriving without ever completing a response keep the timer
\* from expiring
C1_TimerVariantsTimeOut ==
    \A r \in Reqs :
        \/ []<><<SocketRead(r)>>_vars
        \/ (hasTimeout(variant) /\ Unanswered(r))
                ~> (\/ conn[r].hasRes
                    \/ conn[r].state = "errored"
                    \/ promise[r] = Rejected(Text("Request timeout")))

\* with a fetcher that calls req.setTimeout, a call whose upstream never
\* delivers a response is rejected in the end, also when bytes keep arriving
C1_TrickleTimesOut ==
    \A r \in Reqs :
        (hasTimeout(variant) /\ Unanswered(r))
            ~> (\/ conn[r].hasRes
                \/ conn[r].state = "errored"
                \/ promise[r] = Rejected(Text("Request timeout")))

\* what also holds of every fetcher: once the upstream has closed the
\* connection in the middle of the body, no listener hears of it, no timer
\* is left and the call is pending, unanswered, for good
C1_AbortedStaysPending ==
    \A r \in Reqs :
        conn[r].state = "aborted" =>
            /\ promise[r] = Pending
            /\ responses[r] = <<>>
            /\ ~ENABLED Timeout(r)

\* a call of a fetcher that sets the timer is pending after such a close
C1_AbortedReached ==
    \E r \in Reqs : hasTimeout(variant) /\ conn[r].state = "aborted"

\* fails: the case is reached
C1_NeverAborted == ~C1_AbortedReached

\* C2: a call of a fetcher that sets the timeout is never pending more than
\* TIMEOUT_MS after its request was issued, however the upstream paces the
\* response.
C2_TotalWaitBounded ==
    \A r \in Reqs :
        (hasTimeout(variant) /\ promise[r].state = "pending")
            => elapsed[r] <= TIMEOUT_MS

\* what the code bounds instead: the time without activity on the socket
C2_IdleWaitBounded ==
    \A r \in Reqs :
        (hasTimeout(variant) /\ promise[r].state = "pending")
            => idle[r] <= TIMEOUT_MS

\* the one HTTP response r got
Resp(r) == responses[r][1]

\* C3 as claimed: every handler answers a fetcher failure with status 500
\* and {success: false, error, timestamp}, error being the fetcher's message.
C3_ErrorFieldIsMessage ==
    \A r \in Reqs :
        promise[r].state = "rejected" =>
            /\ Len(responses[r]) = 1
            /\ Resp(r).status = 500
            /\ Resp(r).body.success = FALSE
            /\ "timestamp" \in DOMAIN Resp(r).body
            /\ Resp(r).body.error = promise[r].message

\* C3, amended: every handler answers a fetcher failure with status 500 and
\* an envelope with success false and a timestamp that carries the
\* fetcher's message verbatim: in `error` for price, klines and
\* exchangeInfo; in `message` for ticker, whose `error` is a fixed text.
C3_ErrorEnvelope ==
    \A r \in Reqs :
        promise[r].state = "rejected" =>
            /\ Len(responses[r]) = 1
            /\ Resp(r).status = 500
            /\ Resp(r).body.success = FALSE
            /\ IF handled[r] = "ticker"
               THEN /\ DOMAIN Resp(r).body =
                          {"success", "error", "message", "timestamp"}
                    /\ Resp(r).body.message = promise[r].message
                    /\ Resp(r).body.error =
                          IF variant = "fetchBinanceUS"
                          THEN Text("Failed to fetch Binance.US data")
                          ELSE Text("Failed to fetch Binance data")
               ELSE /\ DOMAIN Resp(r).body = {"success", "error", "timestamp"}
                    /\ Resp(r).body.error = promise[r].message

\* a ticker request whose fetcher timed out was answered
C3_Witness ==
    \E r \in Reqs :
        /\ handled[r] = "ticker"
        /\ promise[r] = Rejected(Text("Request timeout"))
        /\ Len(responses[r]) = 1
        /\ Resp(r).body.message = Text("Request timeout")

\* the four kinds of fetcher failure all reach a handler's catch block
C3_KindsReached(kind) ==
    \E r \in Reqs :
        /\ handled[r] \in {"price", "klines", "exchangeInfo"}
        /\ Len(responses[r]) = 1
        /\ promise[r].state = "rejected"
        /\ CASE kind = "timeout" -> conn[r].state = "destroyed"
             [] kind = "transport" -> conn[r].state = "errored"
             [] kind = "status" ->
                    conn[r].state = "ended" /\ conn[r].statusCode # 200
             [] kind = "body" ->
                    conn[r].state = "ended" /\ conn[r].statusCode = 200

\* each of these four fails: the kind of failure it names is reached
C3_NoTimeoutAnswer == ~C3_KindsReached("timeout")
C3_NoTransportAnswer == ~C3_KindsReached("transport")
C3_NoStatusAnswer == ~C3_KindsReached("status")
C3_NoBodyAnswer == ~C3_KindsReached("body")

\* the response ended with a status other than 200
EndedNot200(r) == conn[r].state = "ended" /\ conn[r].statusCode # 200

\* the text of the whole body of r's response
BodyText(r) == utf8Decode(conn[r].body)

\* the text of body when its first k chunks of n bytes and then the rest
\* of it are each decoded by themselves
Pieces(body, n, k) ==
    Flat([j \in 1..(k + 1) |->
            utf8Decode(SubSeq(body, (j - 1) * n + 1,
                              IF j <= k THEN j * n ELSE Len(body)))],
         1, k + 1)

\* the fetcher's `data` at the end of r's response is the text of the
\* chunks the body arrived in, and the body's text when the body is ASCII
ChunkwiseDecoded(r) ==
    /\ \E k \in 0..(Len(conn[r].body) \div ChunkLen) :
            conn[r].data = Pieces(conn[r].body, ChunkLen, k)
    /\ (\A j \in 1..Len(conn[r].body) : conn[r].body[j] < 128)
            => conn[r].data = conn[r].body

\* C4 as claimed: a response that ends with a status other than 200 rejects
\* with exactly 'HTTP <code>: <body>', <body> the whole body the upstream
\* sent, with every fetcher.
C4_WholeBodyInMessage ==
    \A r \in Reqs :
        EndedNot200(r) =>
            promise[r] = Rejected(Text("HTTP ")
                                    \o DecimalText(conn[r].statusCode)
                                    \o Text(": ") \o BodyText(r))

\* C4, amended: a response that ends with a status other than 200 never
\* resolves; it rejects with 'HTTP <code>: <body>', where <body> is the
\* text the fetcher accumulated, the chunks of the body each decoded as
\* UTF-8 by itself: all of it with fetchBinance and fetchBinanceData, its
\* first 200 code units with fetchBinanceUS.
C4_StatusError ==
    \A r \in Reqs :
        EndedNot200(r) =>
            /\ promise[r].state = "rejected"
            /\ promise[r].message =
                Text("HTTP ") \o DecimalText(conn[r].statusCode) \o Text(": ")
                    \o (IF variant = "fetchBinanceUS" /\ Len(conn[r].data) > 200
                        THEN SubSeq(conn[r].data, 1, 200)
                        ELSE conn[r].data)
            /\ ChunkwiseDecoded(r)

\* fetchBinanceUS got a 429 with a body of more than 200 characters
C4_Witness ==
    \E r \in Reqs :
        /\ variant = "fetchBinanceUS"
        /\ EndedNot200(r)
        /\ conn[r].statusCode = 429
        /\ conn[r].body = longText
        /\ Len(conn[r].data) > 200
        /\ promise[r].state = "rejected"
        /\ Len(promise[r].message) = Len(Text("HTTP 429: ")) + 200

\* a 502 whose body arrived in two chunks, the first ending inside a
\* character: the message quotes two U+FFFD in its place
C4_SplitReached ==
    \E r \in Reqs :
        /\ EndedNot200(r)
        /\ conn[r].statusCode = 502
        /\ conn[r].body = accentText
        /\ conn[r].data # BodyText(r)
        /\ \E j \in 1..(Len(conn[r].data) - 1) :
                conn[r].data[j] = 65533 /\ conn[r].data[j + 1] = 65533

\* fails: the split case is reached
C4_NoSplit == ~C4_SplitReached

\* the bodies of the model that are no JSON text
InvalidBodies ==
    {<<>>, Text("<html>Too many requests</html>"), Text("[{\"symbol\":\"BTCUSDT\"},")}

\* the value the list of symbols p stands for
payloadValue(p) ==
    Arr([j \in 1..Len(p) |-> Obj(<<[k |-> Text("symbol"), v |-> Str(p[j])]>>)])

\* what the end of a response with status 200 and the text t gives
ParseOutcome(t) ==
    IF JSONparse(t).ok THEN Resolved(JSONparse(t).val)
    ELSE Rejected(Text("Invalid JSON response"))

\* C5: a response that ends with status 200 rejects with 'Invalid JSON
\* response' when its body is no JSON text and resolves with the value the
\* body parses to when it is one; a response with another status never
\* yields 'Invalid JSON response'.
C5_ParseAfterStatus ==
    \A r \in Reqs :
        conn[r].state = "ended" =>
            /\ conn[r].statusCode = 200
                => promise[r] = ParseOutcome(BodyText(r))
            /\ conn[r].statusCode # 200
                => /\ promise[r].state = "rejected"
                   /\ promise[r].message # Text("Invalid JSON response")

\* what the code does: the text it parses is the one it accumulated, the
\* chunks of the body each decoded by itself, which is the body's text for
\* a body in ASCII; the status is checked before the parse
C5_ParseOfAccumulated ==
    \A r \in Reqs :
        conn[r].state = "ended" =>
            /\ ChunkwiseDecoded(r)
            /\ conn[r].statusCode = 200
                => promise[r] = ParseOutcome(conn[r].data)
            /\ (conn[r].statusCode = 200 /\ conn[r].body \in InvalidBodies)
                => promise[r] = Rejected(Text("Invalid JSON response"))
            /\ \A p \in Payloads :
                (conn[r].statusCode = 200 /\ conn[r].body = arrayText(p))
                    => promise[r] = Resolved(payloadValue(p))
            /\ conn[r].statusCode # 200
                => /\ promise[r].state = "rejected"
                   /\ promise[r].message # Text("Invalid JSON response")

\* a 200 response whose body, a JSON text, arrived in two chunks, the first
\* ending inside a character: the call resolved with a value that is not
\* the one the body parses to
C5_SplitReached ==
    \E r \in Reqs :
        /\ conn[r].state = "ended"
        /\ conn[r].statusCode = 200
        /\ conn[r].body = accentText
        /\ JSONparse(BodyText(r)).ok
        /\ promise[r].state = "fulfilled"
        /\ promise[r].value # JSONparse(BodyText(r)).val
        /\ Get(JSONparse(BodyText(r)).val, Text("text"))
                = Str([j \in 1..AccentLen |-> 201])
        /\ Len(Get(promise[r].value, Text("text")).s) = AccentLen + 1

\* fails: the split case is reached
C5_NoSplit == ~C5_SplitReached

\* a 200 response with a body cut short was rejected as invalid JSON
C5_InvalidReached ==
    \E r \in Reqs :
        /\ conn[r].state = "ended"
        /\ conn[r].statusCode = 200
        /\ conn[r].body = Text("[{\"symbol\":\"BTCUSDT\"},")
        /\ promise[r] = Rejected(Text("Invalid JSON response"))

\* fails: the invalid case is reached
C5_NoInvalid == ~C5_InvalidReached

\* a 200 response with a list of two entries was resolved
C5_ResolvedReached ==
    \E r \in Reqs :
        /\ conn[r].state = "ended"
        /\ conn[r].statusCode = 200
        /\ conn[r].body = arrayText(<<Text("XRPUSDT"), Text("BTCUSDT")>>)
        /\ promise[r].state = "fulfilled"

\* fails: the resolved case is reached
C5_NoResolved == ~C5_ResolvedReached

\* C6: a request 'error' event before the response has ended, also after
\* part of the body has arrived, rejects with that error's message; the
\* call does not resolve.
C6_TransportErrorRejects ==
    \A r \in Reqs :
        conn[r].state = "errored" =>
            /\ promise[r].state = "rejected"
            /\ promise[r].message = conn[r].error
            /\ conn[r].error \in TransportErrors

\* the connection was reset after a part of the body had arrived
C6_Witness ==
    \E r \in Reqs :
        /\ conn[r].state = "errored"
        /\ conn[r].error = Text("read ECONNRESET")
        /\ conn[r].hasRes
        /\ conn[r].data # <<>>
        /\ conn[r].rest # <<>>
        /\ promise[r] = Rejected(Text("read ECONNRESET"))

\* C7: a request to an upstream-calling route issues exactly one upstream
\* request, to the deployment's one host, whatever the outcome of the call;
\* a request to '/' or '/health' (or one that reaches no handler) issues
\* none.
C7_OneUpstreamRequest ==
    \A r \in Reqs :
        /\ handled[r] \in UpstreamHandlers =>
                /\ Len(outbound[r]) = 1
                /\ outbound[r][1].hostname \in
                      {Text("api.binance.com"), Text("api.binance.us"), Text("data.binance.com")}
        /\ handled[r] \notin UpstreamHandlers => outbound[r] = <<>>
        /\ inbound[r].path \in {Text("/"), Text("/health")} => outbound[r] = <<>>

\* what holds of every request: at most one upstream request, to the
\* deployment's host, and exactly one when the fetcher's call got as far as
\* a socket
C7_AtMostOneRequest ==
    \A r \in Reqs :
        /\ Len(outbound[r]) <= 1
        /\ \A j \in 1..Len(outbound[r]) :
                outbound[r][j].hostname = hostname(variant)
        /\ conn[r].state # "none" => Len(outbound[r]) = 1
        /\ handled[r] \notin UpstreamHandlers => outbound[r] = <<>>

\* an upstream-calling handler ran and no upstream request was issued
C7_NoneIssued ==
    \E r \in Reqs :
        /\ handled[r] = "price"
        /\ outbound[r] = <<>>
        /\ promise[r] = Rejected(UNESCAPED_MESSAGE)
        /\ Len(responses[r]) = 1

\* fails: the case without an upstream request is reached
C7_AlwaysIssued == ~C7_NoneIssued

\* the same for the symbol U+20AC, which the deployment that builds its
\* path with `new URL` sends upstream percent-encoded
C7_EuroReached ==
    \E r \in Reqs :
        /\ inbound[r].path = Text("/api/binance/price/%E2%82%AC")
        /\ handled[r] = "price"
        /\ IF variant = "fetchBinance"
           THEN /\ Len(outbound[r]) = 1
                /\ outbound[r][1].path =
                        Text("/api/v3/ticker/price?symbol=%E2%82%AC")
           ELSE /\ outbound[r] = <<>>
                /\ Len(responses[r]) = 1
                /\ responses[r][1].status = 500

\* fails: the case is reached
C7_NoEuro == ~C7_EuroReached

\* a request whose upstream call timed out was answered after one upstream
\* request
C7_Witness ==
    \E r \in Reqs :
        /\ handled[r] = "price"
        /\ promise[r] = Rejected(Text("Request timeout"))
        /\ Len(responses[r]) = 1
        /\ Len(outbound[r]) = 1

\* a health check was answered
C7_LocalReached ==
    \E r \in Reqs :
        /\ inbound[r].path = Text("/health")
        /\ handled[r] = "health"
        /\ Len(responses[r]) = 1

\* fails: the local case is reached
C7_NoLocal == ~C7_LocalReached

\* C8: a request whose Origin matches neither an exact entry nor the
\* subdomain pattern reaches no handler and issues no upstream request: it
\* is answered by the error handler; a request with no Origin, or with
\* Origin 'https://x.onrender.com', reaches the handler of its path (when
\* the router can decode the path's parameter).
C8_OriginChecked ==
    \A r \in Reqs :
        inbound[r].received =>
            /\ inbound[r].origin \in
                    {Text("https://evil.example.com"), Text("https://evilonrender.com")}
                => /\ handled[r] = "none"
                   /\ outbound[r] = <<>>
                   /\ promise[r].state = "none"
                   /\ Len(responses[r]) = 1
                   /\ Resp(r).status = 500
                   /\ Resp(r).body.message = Text("Not allowed by CORS")
            /\ inbound[r].origin \in {<<>>, Text("https://x.onrender.com")}
                => /\ inbound[r].path # Text("/api/binance/price/%zz")
                        => handled[r] # "none"
                   /\ inbound[r].path = Text("/api/binance/price")
                        => handled[r] = "price" /\ Len(outbound[r]) = 1
                   /\ inbound[r].path = Text("/api/binance/ticker")
                        => handled[r] = "ticker" /\ Len(outbound[r]) = 1

\* a ticker request from a foreign origin was turned away
C8_Witness ==
    \E r \in Reqs :
        /\ inbound[r].received
        /\ inbound[r].path = Text("/api/binance/ticker")
        /\ inbound[r].origin = Text("https://evil.example.com")
        /\ handled[r] = "none"
        /\ Len(responses[r]) = 1

\* a ticker request from a subdomain of onrender.com reached its handler
C8_AllowedReached ==
    \E r \in Reqs :
        /\ inbound[r].origin = Text("https://x.onrender.com")
        /\ handled[r] = "ticker"
        /\ Len(outbound[r]) = 1

\* fails: the allowed case is reached
C8_NoAllowed == ~C8_AllowedReached

\* r got a successful answer of a filtering handler
Filtered(r) ==
    /\ handled[r] \in {"ticker", "exchangeInfo"}
    /\ promise[r].state = "fulfilled"
    /\ Len(responses[r]) = 1
    /\ Resp(r).status = 200

\* the upstream entries the filter of r's handler ran on
UpstreamEntries(r) ==
    IF handled[r] = "ticker" THEN promise[r].value.a
    ELSE Get(promise[r].value, Text("symbols")).a

\* the entries r's response carries
OutputEntries(r) ==
    IF handled[r] = "ticker" THEN Resp(r).body.data ELSE Resp(r).body.symbols

\* the allow-list of r's handler, as values
AllowedValues(r) == {Str(sym) : sym \in mainPairs(variant, handled[r])}

\* the positions of the upstream entries whose symbol is allow-listed
Kept(r) ==
    {j \in 1..Len(UpstreamEntries(r)) :
        Get(UpstreamEntries(r)[j], Text("symbol")) \in AllowedValues(r)}

\* the i-th smallest member of a set of positions
Nth(S, i) == CHOOSE j \in S : Cardinality({k \in S : k < j}) = i - 1

\* C9: the ticker and exchange-info filters output exactly the upstream
\* entries whose symbol is in the handler's allow-list, all of them, in
\* upstream order.
C9_FilterIsSubsequence ==
    \A r \in Reqs :
        Filtered(r) =>
            /\ Len(OutputEntries(r)) = Cardinality(Kept(r))
            /\ \A i \in 1..Len(OutputEntries(r)) :
                    OutputEntries(r)[i] = UpstreamEntries(r)[Nth(Kept(r), i)]

\* a ticker answer kept the first and the third of three upstream entries
C9_Witness ==
    \E r \in Reqs :
        /\ Filtered(r)
        /\ handled[r] = "ticker"
        /\ conn[r].body = arrayText(<<Text("XRPUSDT"), Text("FOOUSDT"), Text("BTCUSDT")>>)
        /\ Kept(r) = {1, 3}
        /\ Len(OutputEntries(r)) = 2

\* an exchangeInfo answer kept one of two upstream entries
C9_InfoReached ==
    \E r \in Reqs :
        /\ Filtered(r)
        /\ handled[r] = "exchangeInfo"
        /\ conn[r].body = infoText(<<Text("XRPUSDT"), Text("BTCUSDT")>>)
        /\ Len(OutputEntries(r)) = 1

\* fails: the exchangeInfo case is reached
C9_NoInfo == ~C9_InfoReached

\* how many entries of a list carry the symbol sym
Occurrences(list, sym) ==
    Cardinality({j \in 1..Len(list) : Get(list[j], Text("symbol")) = Str(sym)})

\* C10 as claimed: every allow-listed symbol that occurs in the upstream
\* payload occurs exactly once in the filtered output, also when the
\* upstream lists it more than once.
C10_ExactlyOnce ==
    \A r \in Reqs :
        Filtered(r) =>
            \A sym \in mainPairs(variant, handled[r]) :
                Occurrences(UpstreamEntries(r), sym) >= 1
                    => Occurrences(OutputEntries(r), sym) = 1

\* C10, amended: every allow-listed symbol occurs in the filtered output as
\* many times as in the upstream payload: exactly once when the upstream
\* lists it once, and more than once when the upstream repeats it.
C10_SameOccurrences ==
    \A r \in Reqs :
        Filtered(r) =>
            \A sym \in mainPairs(variant, handled[r]) :
                Occurrences(OutputEntries(r), sym)
                    = Occurrences(UpstreamEntries(r), sym)

\* a ticker answer to an upstream payload that lists BTCUSDT twice
C10_Witness ==
    \E r \in Reqs :
        /\ Filtered(r)
        /\ handled[r] = "ticker"
        /\ Occurrences(UpstreamEntries(r), Text("BTCUSDT")) = 2
        /\ Occurrences(OutputEntries(r), Text("BTCUSDT")) = 2
\* r got a successful answer of the klines handler
KlinesAnswered(r) ==
    /\ handled[r] = "klines"
    /\ conn[r].state = "ended"
    /\ Len(responses[r]) = 1

\* C11: the candle mapper outputs one candle per upstream row, in the same
\* order and with the same count, with openTime = row[0], open, high, low,
\* close and volume the numeric parse of row[1..5], closeTime = row[6] and
\* trades = row[8]; rows that differ only in row[7] and row[9..11] give the
\* same candle.
C11_CandlePerRow ==
    \A r \in Reqs : \A rows \in KlineRowLists :
        KlinesAnswered(r) /\ conn[r].body = klinesBodies[rows] =>
            /\ Resp(r).status = 200
            /\ Resp(r).body.data =
                    [j \in 1..Len(rows) |-> KlineRows[rows[j]].candle]

\* two rows were mapped, the second one differing from RowA in the cells the
\* mapper does not read
C11_Witness ==
    \E r \in Reqs :
        /\ KlinesAnswered(r)
        /\ conn[r].body = klinesBody(<<"B", "A2">>)
        /\ Len(Resp(r).body.data) = 2
        /\ Resp(r).body.data[1].trades = Num(7)
        /\ Resp(r).body.data[2] = RowA.candle

\* r's upstream-calling handler answered with a 200
Succeeded(r) ==
    /\ handled[r] \in UpstreamHandlers
    /\ Len(responses[r]) = 1
    /\ Resp(r).status = 200

\* r's success response is {success: true, timestamp, data, ...}
DataEnvelope(r) ==
    /\ {"success", "timestamp", "data"} \subseteq DOMAIN Resp(r).body
    /\ Resp(r).body.success = TRUE

\* C12: every successful response of every upstream-calling handler (ticker,
\* price, klines, exchangeInfo) is an envelope with success = true, a
\* timestamp, and the shaped payload under the `data` field.
C12_PayloadUnderData == \A r \in Reqs : Succeeded(r) => DataEnvelope(r)

\* the ticker, price and klines handlers do send {success, timestamp, data};
\* the price handler's data is the upstream payload as parsed
C12_OtherHandlersUseData ==
    \A r \in Reqs :
        Succeeded(r) /\ handled[r] # "exchangeInfo" =>
            /\ DataEnvelope(r)
            /\ handled[r] = "price" => Resp(r).body.data = promise[r].value

\* the exchangeInfo handler sends {success, timestamp, timezone, serverTime,
\* symbols}: the filtered list is under `symbols`
C12_InfoUnderSymbols ==
    \A r \in Reqs :
        Succeeded(r) /\ handled[r] = "exchangeInfo" =>
            /\ DOMAIN Resp(r).body =
                    {"success", "timestamp", "timezone", "serverTime", "symbols"}
            /\ Resp(r).body.success = TRUE

\* spellings of a symbol, each with its uppercase form
Spellings ==
    {<<Text("btcusdt"), Text("BTCUSDT")>>, <<Text("BTCUSDT"), Text("BTCUSDT")>>,
     <<Text("EthUsdt"), Text("ETHUSDT")>>, <<Text("ETHUSDT"), Text("ETHUSDT")>>,
     <<Text("ethUsdt"), Text("ETHUSDT")>>,
     <<Text("stra") \o <<223>> \o Text("e"), Text("STRASSE")>>}

\* r reached handler h, which issued its upstream request
Issued(r, h) == handled[r] = h /\ Len(outbound[r]) = 1

\* the klines path for a symbol and r's interval and limit, '1h' and 60 when
\* absent
KlinesPathFor(r, sym) ==
    LET q == inbound[r].query
    IN  Text("/api/v3/klines?symbol=") \o sym
            \o Text("&interval=") \o (IF q.interval = Undefined THEN Text("1h") ELSE q.interval.s)
            \o Text("&limit=") \o (IF q.limit = Undefined THEN Text("60") ELSE q.limit.s)

\* the price handler puts the uppercased symbol in the upstream path
C13_PriceUppercases ==
    \A r \in Reqs : \A sp \in Spellings :
        Issued(r, "price") /\ inbound[r].params.symbol = Str(sp[1]) =>
            outbound[r][1].path = Text("/api/v3/ticker/price?symbol=") \o sp[2]

\* an absent klines symbol, interval or limit is BTCUSDT, '1h' or 60
C13_KlinesDefaults ==
    \A r \in Reqs :
        Issued(r, "klines") /\ inbound[r].query.symbol = Undefined =>
            outbound[r][1].path = KlinesPathFor(r, Text("BTCUSDT"))

\* the klines handler puts the uppercased symbol in the upstream path
C13_KlinesUppercases ==
    \A r \in Reqs : \A sp \in Spellings :
        Issued(r, "klines") /\ inbound[r].query.symbol = Str(sp[1]) =>
            outbound[r][1].path = KlinesPathFor(r, sp[2])

\* C13: in the price and klines handlers, a supplied symbol is uppercased
\* before it is placed in the upstream request path, so that a lowercase
\* and an uppercase spelling give the same upstream request; an absent
\* klines symbol, interval or limit defaults to BTCUSDT, '1h' or 60.
C13_SymbolUppercased ==
    C13_PriceUppercases /\ C13_KlinesUppercases /\ C13_KlinesDefaults

\* what the klines handler does: the symbol goes upstream as it was spelled,
\* and comes back in the response's `symbol` field the same way
C13_KlinesVerbatim ==
    \A r \in Reqs : \A sp \in Spellings :
        Issued(r, "klines") /\ inbound[r].query.symbol = Str(sp[1]) =>
            /\ outbound[r][1].path = KlinesPathFor(r, sp[1])
            /\ Succeeded(r) => Resp(r).body.symbol = sp[1]

\* a lowercase symbol was sent upstream by the price handler, uppercased
C13_PriceReached ==
    \E r \in Reqs :
        /\ Issued(r, "price")
        /\ inbound[r].params.symbol = Str(Text("btcusdt"))
        /\ outbound[r][1].path = Text("/api/v3/ticker/price?symbol=BTCUSDT")

\* fails: the price case is reached
C13_NoPrice == ~C13_PriceReached

\* what r's own upstream connection decided: the status and body the
\* upstream sent on it, its transport error, or its timeout
OwnOutcome(r) ==
    CASE conn[r].state = "ended" ->
            onEnd(variant, conn[r].statusCode, conn[r].body)
      [] conn[r].state = "errored" -> Rejected(conn[r].error)
      [] conn[r].state = "destroyed" -> Rejected(Text("Request timeout"))

\* C14: concurrent inbound requests are independent: under any interleaving
\* of their upstream events (data, end, error, timeout) a request has no
\* response while its own connection is open, and afterwards its one
\* response is what its handler makes of its own parameters and of what its
\* own connection delivered; nothing of another request's status, body or
\* error is in it.
C14_Independent ==
    \A r \in ConcReqs :
        /\ conn[r].state \in
                {"none", "connecting", "handshake", "open", "aborted"} =>
                responses[r] = <<>>
        /\ conn[r].state \in {"ended", "errored", "destroyed"} =>
                responses[r] =
                    <<respond(variant, handled[r], ReqOf(r),
                              OwnOutcome(r), elapsed[r])>>

\* the ticker request r1 got the one allow-listed entry of the body it was
\* sent, while the price request r2, sent an error body, was between two
\* chunks of it
C14_Witness ==
    /\ handled["r1"] = "ticker" /\ handled["r2"] = "price"
    /\ conn["r1"].state = "ended" /\ conn["r1"].statusCode = 200
    /\ Resp("r1").status = 200
    /\ Resp("r1").body.data = <<Obj(<<[k |-> Text("symbol"), v |-> Str(Text("BTCUSDT"))]>>)>>
    /\ conn["r2"].state = "open" /\ conn["r2"].statusCode = 429
    /\ conn["r2"].data # <<>> /\ conn["r2"].rest # <<>>
    /\ responses["r2"] = <<>>

\* r's fetcher call has settled
Settled(r) == promise[r].state \in {"fulfilled", "rejected"}

\* the outcome of r's call is the one of the first event on r's connection:
\* the timeout for a destroyed request, whatever came after it; the end of
\* the response; the transport error
DecidedByFirst(r) ==
    /\ conn[r].state = "destroyed" => promise[r] = Rejected(Text("Request timeout"))
    /\ conn[r].state = "errored" => promise[r] = Rejected(conn[r].error)
    /\ conn[r].state = "ended" =>
            \/ promise[r].state = "fulfilled"
            \/ /\ promise[r].state = "rejected"
               /\ \/ promise[r].message = Text("Invalid JSON response")
                  \/ SubSeq(promise[r].message, 1, 5) = Text("HTTP ")

\* r has no response while its call is pending, one once it has settled,
\* and never more than one
AtMostOneResponse(r) ==
    /\ promise[r].state = "pending" => responses[r] = <<>>
    /\ Settled(r) => Len(responses[r]) = 1
    /\ Len(responses[r]) <= 1

\* C15: a fetcher call settles at most once and the first of the events
\* {response end, request error, timeout} decides its outcome: a settled
\* promise and the response sent for it never change afterwards, so that
\* after a timeout the result stays 'Request timeout' whatever event the
\* destroyed connection produces, and each inbound request gets exactly one
\* HTTP response.
C15_SettlesOnceAndAnswers ==
    /\ [](\A r \in Reqs : DecidedByFirst(r) /\ AtMostOneResponse(r))
    /\ [][\A r \in Reqs :
                Settled(r) =>
                    promise'[r] = promise[r] /\ responses'[r] = responses[r]]_vars
    /\ \A r \in Reqs : inbound[r].received ~> (Len(responses[r]) = 1)

\* the last part of C15 alone, for the two fetchers that set the timer:
\* each inbound request gets a response in the end
C15_TimerCallsAnswered ==
    \A r \in Reqs :
        (hasTimeout(variant) /\ inbound[r].received)
            ~> (Len(responses[r]) = 1)

\* what holds of C15: a call settles at most once, the first event decides,
\* and a request never gets more than one response
C15_SettlesOnce ==
    /\ [](\A r \in Reqs : DecidedByFirst(r) /\ AtMostOneResponse(r))
    /\ [][\A r \in Reqs :
                Settled(r) =>
                    promise'[r] = promise[r] /\ responses'[r] = responses[r]]_vars

\* a call whose upstream closed the connection in the middle of the body
\* stays as it is for good: pending (C1_AbortedStaysPending), unanswered
C15_AbortedNeverAnswered ==
    [][\A r \in Reqs :
            conn[r].state = "aborted" =>
                /\ conn'[r] = conn[r]
                /\ promise'[r] = promise[r]
                /\ responses'[r] = <<>>]_vars

\* after the timeout, the destroyed request emitted its error: the outcome
\* and the one response are still those of the timeout
C15_LateErrorReached ==
    \E r \in Reqs :
        /\ handled[r] = "price"
        /\ conn[r].state = "destroyed"
        /\ conn[r].lateError
        /\ promise[r] = Rejected(Text("Request timeout"))
        /\ Len(responses[r]) = 1
        /\ Resp(r).status = 500
        /\ Resp(r).body.error = Text("Request timeout")

\* fails: the case is reached
C15_NoLateError == ~C15_LateErrorReached

\* r got a successful answer of a handler that sends a `count`
Counted(r) == Succeeded(r) /\ handled[r] \in {"ticker", "klines"}

\* C16: in every successful ticker and klines response, the `count` field
\* equals the number of elements of the `data` array of the same response,
\* and is never greater than the number of entries of the upstream payload
\* (of the symbols or rows the upstream's body was written from).
C16_CountMatchesData ==
    \A r \in Reqs :
        Counted(r) =>
            /\ Resp(r).body.count = Len(Resp(r).body.data)
            /\ Resp(r).body.count <= Len(promise[r].value.a)
            /\ \A p \in Payloads :
                    conn[r].body = tickerBodies[p] => Resp(r).body.count <= Len(p)
            /\ \A rows \in KlineRowLists :
                    conn[r].body = klinesBodies[rows] =>
                        Resp(r).body.count <= Len(rows)

\* a ticker answer with fewer entries than the upstream sent
C16_Witness ==
    \E r \in Reqs :
        /\ Counted(r)
        /\ handled[r] = "ticker"
        /\ conn[r].body = arrayText(<<Text("XRPUSDT"), Text("FOOUSDT"), Text("BTCUSDT")>>)
        /\ Resp(r).body.count = Len(Resp(r).body.data)
        /\ Resp(r).body.count \in {1, 2}

\* a klines answer that counts two candles
C16_KlinesReached ==
    \E r \in Reqs :
        /\ Counted(r)
        /\ handled[r] = "klines"
        /\ Resp(r).body.count = 2

\* fails: the klines case is reached
C16_NoKlines == ~C16_KlinesReached


====
